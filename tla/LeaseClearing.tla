--------------------------- MODULE LeaseClearing ----------------------------
(***************************************************************************)
(* on_initialize of pallet file-bank: once a day the leases are frozen or  *)
(* killed, and in every block the files, the lease and the buckets of      *)
(* users with a dead lease are cleared, up to ClearLimit files.  Hooks are *)
(* not transactions: what a failing helper wrote stays.  With it the sale  *)
(* of leases (storage-handler), without its prices.                        *)
(***************************************************************************)
EXTENDS UserFiles

CONSTANTS GibCounts, RenewDays,  \* arguments of buy_space and renewal_space
          MaxTotal               \* bound on the total of a lease

\* The hook's progress: the books and the other maps it writes, the files it
\* has counted, and whether it has stopped at ClearLimit.
Progress(leases, list) ==
  [books |-> [Books EXCEPT !.lease = leases], list |-> list,
   hold |-> UserHoldFileList, bucket |-> Bucket, purchased |-> PurchasedSpace,
   count |-> 0, stop |-> FALSE]

\* remove_file_last_owner is called a second time; it finds no file unless the
\* first call failed.
ClearLastOwner(books, h, u) ==
  LET first == RemoveFileLastOwner([books EXCEPT !.ok = TRUE], h, u, FALSE)
  IN  IF h \in first.removed THEN first
      ELSE RemoveFileLastOwner([first EXCEPT !.ok = TRUE], h, u, FALSE)

\* The file popped from position i of u's hold list.  The file at which the
\* count reaches ClearLimit has been popped already and is not looked at again.
ClearFile(p, u, i) ==
  LET h == UserHoldFileList[u][i]
  IN  IF p.stop THEN p
      ELSE IF p.count + 1 = ClearLimit
      THEN [p EXCEPT !.stop = TRUE, !.hold[u] = SubSeq(UserHoldFileList[u], 1, i - 1)]
      ELSE IF ~ Stored(p.books, h) THEN [p EXCEPT !.count = @ + 1]
      ELSE [p EXCEPT !.count = @ + 1,
                     !.books = IF Several(@.owner[h]) THEN RemoveFileOwner(@, h, u, FALSE)
                               ELSE ClearLastOwner(@, h, u)]

\* delete_user_space_storage fails for a user without a lease.
CanDeleteLease(p, u) == u \in DOMAIN p.books.lease /\ p.books.lease[u].total <= p.purchased

\* Mutant: the space stays sold.
MutantStaysSold(p, u) == p.purchased

\* sub_purchased_space, unless deleting the lease fails.
PurchasedWithout(p, u) ==
  IF CanDeleteLease(p, u) THEN p.purchased - p.books.lease[u].total ELSE p.purchased

\* Mutant: the buckets are forgotten.
MutantBucketsStay(bucket, u) == bucket

WithoutBuckets(bucket, u) == [k \in {x \in DOMAIN bucket : ~ OwnedBy(u, x)} |-> bucket[k]]

\* A user who has never held a file is passed over.
ClearUser(p, u) ==
  IF p.stop \/ u \notin DOMAIN UserHoldFileList THEN p
  ELSE LET n == Len(UserHoldFileList[u])
           q == FoldLeft(LAMBDA x, i : ClearFile(x, u, i), p,
                         [i \in 1..n |-> n + 1 - i])
       IN  IF q.stop THEN q
           ELSE [q EXCEPT
                   !.books.lease = IF CanDeleteLease(q, u) THEN RemoveKey(@, u) ELSE @,
                   !.purchased = PurchasedWithout(q, u),
                   !.list = @ \ {u},
                   !.hold = RemoveKey(@, u),
                   !.bucket = WithoutBuckets(@, u)]

\* The users to clear, after frozen_task on a day boundary; a list longer than
\* ClearUserList's bound is dropped as a whole.
DayBoundary == now % OneDay = 0

LeasesNow ==
  IF DayBoundary THEN [u \in DOMAIN UserOwnedSpace |-> FrozenTask(now, UserOwnedSpace[u])]
  ELSE UserOwnedSpace

ListNow ==
  LET due == {u \in DOMAIN UserOwnedSpace : DueForClearing(now, UserOwnedSpace[u])}
  IN  IF ~ DayBoundary THEN ClearUserList
      ELSE IF Cardinality(due) > ClearListLimit THEN {} ELSE due

\* The order of the list is that of a hashed map: any order.
OnInitialize ==
  /\ phase = "hook"
  /\ phase' = "extrinsics"
  /\ \E order \in Bijection(1..Cardinality(ListNow), ListNow) :
       LET p == FoldLeft(ClearUser, Progress(LeasesNow, ListNow), order)
       IN  /\ WriteBooks(p.books)
           /\ ClearUserList' = p.list
           /\ UserHoldFileList' = p.hold
           /\ Bucket' = p.bucket
           /\ PurchasedSpace' = p.purchased
  /\ UNCHANGED <<now, tasks, DealMap, fillers, MinerLock, RestoralOrder, AllMiner, TotalIdleSpace>>

-----------------------------------------------------------------------------
\* add_purchased_space
AddPurchasedSpace(size) ==
  /\ PurchasedSpace + size <= TotalIdleSpace + TotalServiceSpace
  /\ PurchasedSpace' = PurchasedSpace + size

BuySpace(u, gib) ==
  /\ Submit("buy_space")
  /\ u \notin DOMAIN UserOwnedSpace
  /\ UserOwnedSpace' = InsertKey(UserOwnedSpace, u, AddUserPurchasedSpace(now, GiB * gib))
  /\ AddPurchasedSpace(GiB * gib)
  /\ UNCHANGED <<chain, tasks, DealMap, files, fillers, restoral, miners,
                 TotalIdleSpace, TotalServiceSpace>>

\* Bound: a lease whose total has reached MaxTotal does not grow.
ExpansionSpace(u, gib) ==
  /\ Submit("expansion_space")
  /\ u \in DOMAIN UserOwnedSpace
  /\ UserOwnedSpace[u].total < MaxTotal
  /\ now < UserOwnedSpace[u].deadline
  /\ UserOwnedSpace[u].state # "frozen"
  /\ AddPurchasedSpace(GiB * gib)
  /\ UserOwnedSpace' = [UserOwnedSpace EXCEPT ![u] = ExpensionPuchasedPackage(@, GiB * gib)]
  /\ UNCHANGED <<chain, tasks, DealMap, files, fillers, restoral, miners,
                 TotalIdleSpace, TotalServiceSpace>>

\* Bound: a lease that outlasts MaxBlock is not extended.
RenewalSpace(u, days) ==
  /\ Submit("renewal_space")
  /\ u \in DOMAIN UserOwnedSpace
  /\ UserOwnedSpace[u].deadline <= MaxBlock
  /\ UserOwnedSpace[u].state # "dead"
  /\ UserOwnedSpace' = [UserOwnedSpace EXCEPT ![u] = UpdatePuchasedPackage(now, @, days)]
  /\ UNCHANGED <<chain, tasks, DealMap, files, fillers, restoral, miners,
                 TotalIdleSpace, TotalServiceSpace, PurchasedSpace>>

LeaseNext ==
  \/ OnInitialize
  \/ \E u \in Users, gib \in GibCounts : BuySpace(u, gib) \/ ExpansionSpace(u, gib)
  \/ \E u \in Users, days \in RenewDays : RenewalSpace(u, days)
=============================================================================
