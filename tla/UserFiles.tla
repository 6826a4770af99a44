----------------------------- MODULE UserFiles ------------------------------
(***************************************************************************)
(* The users' side of pallet file-bank: holding a file that is already     *)
(* stored, handing it on, and deleting files and buckets.                  *)
(*                                                                         *)
(* Calls that delete files do so in loops over several files, owners and   *)
(* miners.  The loops are folds over the books, a record of everything     *)
(* they write; ok says that no step has failed so far.                     *)
(***************************************************************************)
EXTENDS FileBankState

\* A loop over a sequence: Step on each element, in order, from base.
FoldLeft(Step(_, _), base, seq) ==
  MapThenFoldSet(LAMBDA i, acc : Step(acc, seq[i]), base, LAMBDA i : i,
                 LAMBDA S : Max(S), DOMAIN seq)

Books ==
  [owner |-> [h \in DOMAIN File |-> File[h].owner], removed |-> {},
   items |-> MinerItems, target |-> RestoralTarget,
   lease |-> UserOwnedSpace, service |-> TotalServiceSpace, ok |-> TRUE]

WriteBooks(books) ==
  /\ File' = [h \in DOMAIN File \ books.removed |->
                [File[h] EXCEPT !.owner = books.owner[h]]]
  /\ MinerItems' = books.items
  /\ RestoralTarget' = books.target
  /\ UserOwnedSpace' = books.lease
  /\ TotalServiceSpace' = books.service

Stored(books, h) == h \in DOMAIN File /\ h \notin books.removed

\* update_user_space with operation 2; a user without a lease makes it panic,
\* which undoes the call as an error does.
Refund(books, u, size) ==
  IF books.ok /\ u \in DOMAIN books.lease /\ CanReleaseSpace(books.lease[u], size)
  THEN [books EXCEPT !.lease[u] = ReleaseSpace(@, size)]
  ELSE [books EXCEPT !.ok = FALSE]

OwnedBy(u, brief) == brief[1] = u

\* Mutant: whoever is first on the list goes.
MutantFirstOwnerGoes(owners, u) == {i \in 1..Len(owners) : TRUE}

PositionsOf(owners, u) == {i \in 1..Len(owners) : OwnedBy(u, owners[i])}

WithoutEntry(list, i) == SubSeq(list, 1, i - 1) \o SubSeq(list, i + 1, Len(list))

\* remove_file_owner: the first entry of u goes; the lease is credited only
\* when it is not being cleared.
RemoveFileOwner(books, h, u, refund) ==
  LET entries == PositionsOf(books.owner[h], u)
      paid == IF refund THEN Refund(books, u, CalFileSize(File[h].segs)) ELSE books
  IN  IF entries = {} THEN books
      ELSE [paid EXCEPT !.owner[h] = WithoutEntry(@, Min(entries))]

\* The fragments of file h that miner m stores.
FragmentsOn(h, m) == {f \in DOMAIN File[h].frag : File[h].frag[f].miner = m}

\* The loop of remove_file_last_owner on one miner: an exited miner's fragments
\* count as restored, any other miner's service space shrinks.
DropFragments(books, h, m) ==
  LET n == Cardinality(FragmentsOn(h, m))
  IN  IF n = 0 \/ ~ books.ok THEN books
      ELSE IF m \in DOMAIN books.target
           THEN [books EXCEPT !.target[m].restored = @ + n]
           ELSE IF CanSubServiceSpace(books.items, m, n)
                THEN [books EXCEPT !.items = SubServiceSpace(@, m, n)]
                ELSE [books EXCEPT !.ok = FALSE]

\* Mutant: the file goes before the steps that may fail.
MutantRemovedFirst(books, h, u, refund) ==
  LET n == Cardinality(DOMAIN File[h].frag)
      dropped == FoldLeft(LAMBDA b, m : DropFragments(b, h, m),
                          [books EXCEPT !.removed = @ \cup {h}], MinerOrder)
      paid == IF refund THEN Refund(dropped, u, n) ELSE dropped
  IN  IF ~ paid.ok \/ n > paid.service
      THEN [paid EXCEPT !.ok = FALSE]
      ELSE [paid EXCEPT !.service = @ - n]

\* remove_file_last_owner.  An error leaves behind what was written before it,
\* which matters to on_initialize, the only caller that is not a transaction.
RemoveFileLastOwner(books, h, u, refund) ==
  LET n == Cardinality(DOMAIN File[h].frag)
      dropped == FoldLeft(LAMBDA b, m : DropFragments(b, h, m), books, MinerOrder)
      paid == IF refund THEN Refund(dropped, u, n) ELSE dropped
  IN  IF ~ paid.ok \/ n > paid.service
      THEN [paid EXCEPT !.ok = FALSE]
      ELSE [paid EXCEPT !.service = @ - n, !.removed = @ \cup {h}]

\* Mutant: the last owner counts as one of several.
MutantSeveral(owners) == Len(owners) > 0

Several(owners) == Len(owners) > 1

\* delete_user_file runs over the owners the file had when it was read.
DeleteUserFile(books, h, u) ==
  LET owners == books.owner[h]
      Step(b, brief) ==
        IF ~ OwnedBy(u, brief) THEN b
        ELSE IF Several(owners) THEN RemoveFileOwner(b, h, u, TRUE)
        ELSE RemoveFileLastOwner(b, h, u, TRUE)
  IN  FoldLeft(Step, books, owners)

\* bucket_remove_file: every bucket that u's entries name has to exist.
EntriesOf(owners, u) == {owners[i] : i \in PositionsOf(owners, u)}

Without(list, h) == SelectSeq(list, LAMBDA x : x # h)

\* Mutant: the bucket keeps the file.
MutantBucketKeepsFile(buckets, h, entries) == buckets

BucketRemoveFile(buckets, h, entries) ==
  [k \in DOMAIN buckets |-> IF k \in entries THEN Without(buckets[k], h) ELSE buckets[k]]

-----------------------------------------------------------------------------
\* upload_declaration of a file that is on the chain: the user becomes a holder
\* and is charged for the number of segments declared, which need not be the
\* file's.  Neither a holder nor the user of a dead lease is refused.
DeclareHeld(u, b, h, segs) ==
  /\ h \in DOMAIN File
  /\ Submit("upload_declaration")
  /\ u \in DOMAIN UserOwnedSpace
  /\ UserOwnedSpace[u].remaining > CalFileSize(segs)
  /\ CanUseSpace(UserOwnedSpace[u], CalFileSize(segs))
  /\ UserOwnedSpace' = [UserOwnedSpace EXCEPT ![u] = UseSpace(@, CalFileSize(segs))]
  /\ AddToBucket(u, b, h)
  /\ AddUserHold(u, h)
  /\ File' = [File EXCEPT ![h].owner = Append(@, <<u, b>>)]
  /\ UNCHANGED <<chain, tasks, DealMap, ClearUserList, fillers, restoral, miners,
                 TotalIdleSpace, TotalServiceSpace, PurchasedSpace>>

\* Mutant: the target is not charged.
MutantTransferUncharged(t, tb, h) == [Books EXCEPT !.owner[h] = Append(@, <<t, tb>>)]

\* The books once t has become a holder.
Shared(t, tb, h) ==
  [Books EXCEPT !.lease[t] = UseSpace(@, CalFileSize(File[h].segs)),
                !.owner[h] = Append(@, <<t, tb>>)]

\* ownership_transfer from u to t, who is not u because u holds the file.
OwnershipTransfer(u, t, tb, h) ==
  /\ Submit("ownership_transfer")
  /\ h \in DOMAIN File
  /\ EntriesOf(File[h].owner, u) # {} /\ EntriesOf(File[h].owner, t) = {}
  /\ File[h].stat = "Active"
  /\ <<t, tb>> \in DOMAIN Bucket
  /\ t \in DOMAIN UserOwnedSpace
  /\ CanUseSpace(UserOwnedSpace[t], CalFileSize(File[h].segs))
  /\ LET entries == EntriesOf(File[h].owner, u)
         books == DeleteUserFile(Shared(t, tb, h), h, u)
     IN  /\ books.ok /\ WriteBooks(books)
         /\ entries \subseteq DOMAIN Bucket
         /\ Bucket' = BucketRemoveFile([Bucket EXCEPT ![<<t, tb>>] = Append(@, h)], h, entries)
  /\ UserHoldFileList' = InsertKey(InsertKey(UserHoldFileList, t, Append(HoldList(t), h)),
                                   u, Without(HoldList(u), h))
  /\ UNCHANGED <<chain, tasks, DealMap, ClearUserList, fillers, MinerLock, RestoralOrder,
                 AllMiner, TotalIdleSpace, PurchasedSpace>>

\* Mutant: a file that is being tagged may be deleted.
MutantDeletable(h) == h \in DOMAIN File

Deletable(h) == h \in DOMAIN File /\ File[h].stat # "Calculate"

\* delete_file for one file.  A user who does not hold it changes nothing but
\* may be left with an empty hold list.
DeleteFile(u, h) ==
  /\ Submit("delete_file")
  /\ Deletable(h)
  /\ LET entries == EntriesOf(File[h].owner, u)
         books == DeleteUserFile(Books, h, u)
     IN  /\ books.ok /\ WriteBooks(books)
         /\ entries \subseteq DOMAIN Bucket
         /\ Bucket' = BucketRemoveFile(Bucket, h, entries)
  /\ UserHoldFileList' = InsertKey(UserHoldFileList, u, Without(HoldList(u), h))
  /\ UNCHANGED <<chain, tasks, DealMap, ClearUserList, fillers, MinerLock, RestoralOrder,
                 AllMiner, TotalIdleSpace, PurchasedSpace>>

CreateBucket(u, b) ==
  /\ Submit("create_bucket")
  /\ <<u, b>> \notin DOMAIN Bucket
  /\ Bucket' = InsertKey(Bucket, <<u, b>>, << >>)
  /\ UNCHANGED <<chain, tasks, DealMap, File, UserHoldFileList, ClearUserList, fillers,
                 restoral, miners, space>>

\* The loop of delete_bucket on one file; the state of the file is not looked at.
\* A bucket that lists a file still being tagged is a call of its own in Calls,
\* "delete_bucket_calculating".
EmptyBucketOf(books, h, u) ==
  IF ~ Stored(books, h) THEN [books EXCEPT !.ok = FALSE]
  ELSE IF Several(books.owner[h]) THEN RemoveFileOwner(books, h, u, TRUE)
  ELSE RemoveFileLastOwner(books, h, u, TRUE)

DeleteBucket(u, b) ==
  /\ Submit("delete_bucket")
  /\ <<u, b>> \in DOMAIN Bucket
  /\ "delete_bucket_calculating" \in Calls
       \/ \A h \in Range(Bucket[<<u, b>>]) : h \in DOMAIN File => File[h].stat # "Calculate"
  /\ LET books == FoldLeft(LAMBDA s, h : EmptyBucketOf(s, h, u), Books, Bucket[<<u, b>>])
     IN  books.ok /\ WriteBooks(books)
  /\ UserHoldFileList' =
       IF Bucket[<<u, b>>] = << >> THEN UserHoldFileList
       ELSE InsertKey(UserHoldFileList, u,
              SelectSeq(HoldList(u), LAMBDA h : h \notin Range(Bucket[<<u, b>>])))
  /\ Bucket' = RemoveKey(Bucket, <<u, b>>)
  /\ UNCHANGED <<chain, tasks, DealMap, ClearUserList, fillers, MinerLock, RestoralOrder,
                 AllMiner, TotalIdleSpace, PurchasedSpace>>

-----------------------------------------------------------------------------
UserNext ==
  \/ \E u \in Users, b \in Buckets :
       \/ CreateBucket(u, b) \/ DeleteBucket(u, b)
       \/ \E h \in Files, segs \in SegmentCounts : DeclareHeld(u, b, h, segs)
       \/ \E h \in Files, t \in Users : OwnershipTransfer(t, u, b, h)
  \/ \E u \in Users, h \in Files : DeleteFile(u, h)
=============================================================================
