---------------------------- MODULE FileBankBooks ---------------------------
(***************************************************************************)
(* What FileBank keeps in step: locks, space, owners, miners who leave.    *)
(***************************************************************************)
EXTENDS FileBank

\* A deal in stage 2 can be settled at its time.  Its file is there,
\* and every miner still has the deal's fragments locked (calculate_end).
TaggedCanSettle ==
  \A h \in DOMAIN DealMap : DealMap[h].stage = 2 => CanSettle(h)

\* As long as no lease is cleared and no file removed, a deal is left without a
\* scheduled call only when there are attempts left and the redraw does not find
\* miners for the file (deal_reassign_miner): undoing its locks, giving it up after
\* the last attempt and settling it do not fail, also after locks have leaked.
StuckOnlyForWantOfMiners ==
  [][\A h \in DOMAIN DealMap \cap DOMAIN agenda :
       h \in DOMAIN DealMap' \ DOMAIN agenda' =>
         /\ agenda[h].call = "deal_reassign_miner" /\ ~ LastAttempt(h)
         /\ CanUnlockDeal(h)
         /\ AssignMayFail(Unlocked(h), AllMiner, DealMap[h].segs)]_vars

InStage(n) == {h \in DOMAIN DealMap : DealMap[h].stage = n}

TasksOf(m, deals) == MapThenSumSet(LAMBDA h : TaskCount(DealMap[h])[m], deals)

Held(u, deals) ==
  MapThenSumSet(LAMBDA h : IF DealMap[h].user = u THEN CalFileSize(DealMap[h].segs) ELSE 0, deals)

\* Locks are neither lost nor leaked: what is locked on a miner is what the open
\* deals have assigned to it, and what is locked on a lease is what the user's
\* deals in stage 1 need, through any number of reassignments.
LocksAreDeals ==
  /\ \A m \in DOMAIN MinerItems : MinerItems[m].lock = TasksOf(m, DOMAIN DealMap)
  /\ \A u \in DOMAIN UserOwnedSpace : UserOwnedSpace[u].locked = Held(u, InStage(1))

\* When assignments fail and deals are declared over, locks may leak, but never
\* the other way: every open deal's locks are still there to be undone.
LocksCoverDeals ==
  /\ \A m \in DOMAIN MinerItems : MinerItems[m].lock >= TasksOf(m, DOMAIN DealMap)
  /\ \A u \in DOMAIN UserOwnedSpace : UserOwnedSpace[u].locked >= Held(u, InStage(1))

-----------------------------------------------------------------------------
(* Properties of space *)

Occurrences(x, list) == Cardinality({i \in 1..Len(list) : list[i] = x})

OwnerEntries(h, u) == Cardinality({i \in 1..Len(File[h].owner) : File[h].owner[i][1] = u})

\* The three records of who holds a file agree, entry by entry: its owner list,
\* the buckets and the hold lists (upload_declaration, ownership_transfer,
\* delete_file, delete_bucket).  A user who holds the file twice has it in one
\* bucket here: with two, delete_bucket takes all entries out of the hold list and
\* only the first off the owner list.
BooksAgree ==
  /\ \A h \in Files : \A k \in Brief :
       (IF k \in DOMAIN Bucket THEN Occurrences(h, Bucket[k]) ELSE 0)
         = (IF h \in DOMAIN File THEN Occurrences(k, File[h].owner) ELSE 0)
  /\ \A h \in Files, u \in Users :
       Occurrences(h, HoldList(u)) = (IF h \in DOMAIN File THEN OwnerEntries(h, u) ELSE 0)

\* The last holder to go takes the file along: a file is left on the chain without
\* an owner only by a sole holder who had declared it more than once, whose
\* entries delete_user_file removes as those of several owners.
OrphanedOnlyByDoubleHolder ==
  [][\A h \in DOMAIN File :
       File[h].owner # << >> /\ h \in DOMAIN File' /\ File'[h].owner = << >> =>
         Len(File[h].owner) > 1 /\ \E u \in Users : OwnerEntries(h, u) = Len(File[h].owner)]_vars

\* A lease is charged for exactly the files its user holds, once per entry.  The
\* charge is for the segments declared and the refund for those of the file
\* (upload_declaration, remove_file_owner): this is claimed where the two are
\* equal, as they are when SegmentCounts has one element.
UsedIsHeld ==
  \A u \in DOMAIN UserOwnedSpace :
    UserOwnedSpace[u].used =
      MapThenSumSet(LAMBDA h : OwnerEntries(h, u) * CalFileSize(File[h].segs), DOMAIN File)

StoredOn(m) == MapThenSumSet(LAMBDA h : Cardinality(FragmentsOn(h, m)), DOMAIN File)

Left(m) == MinerItems[m].state \in {"exit", "offline"}

\* Service space is what is stored: the network total is the number of stored
\* fragments; a miner's service space is the fragments it stores, but for those
\* not settled yet; and what a miner who left has still to see restored is what
\* it still stores, withdrawn or not.  Restoral, deletion, settlement and exit
\* all move these.  (A miner who left and registered again is not covered: its
\* new and its old fragments are not told apart; nor is one forced out, whose
\* deals may be in stage 2.)
ServiceIsStored ==
  /\ TotalServiceSpace = MapThenSumSet(LAMBDA h : Cardinality(DOMAIN File[h].frag), DOMAIN File)
  /\ \A m \in DOMAIN MinerItems \ DOMAIN RestoralTarget :
       MinerItems[m].service + TasksOf(m, InStage(2)) = StoredOn(m)
  /\ \A m \in DOMAIN RestoralTarget :
       m \notin DOMAIN MinerItems \/ Left(m) =>
         RestoralTarget[m].service = RestoralTarget[m].restored + StoredOn(m)


\* Even when deals get stuck and are declared over, a miner never runs out of
\* fillers to replace: it has one for each idle fragment and for each it has
\* promised or has yet to replace (upload_filler, delete_filler,
\* replace_file_report against deals).
FillersCoverPromises ==
  \A m \in DOMAIN MinerItems :
    Fillers[m] >= MinerItems[m].idle + TasksOf(m, InStage(1)) + PendingReplacements[m]

\* Clearing is thorough: the step of on_initialize that deletes a lease leaves its
\* user neither a hold list, nor a bucket, nor a file.  The one exception is a file
\* whose miner has too little service space to give up, because one of its files
\* was cleared while it was being tagged: there remove_file_last_owner fails, and
\* leaves an owner entry that no later hold list names.  (Open deals stay.)
ClearingIsThorough ==
  [][\A u \in DOMAIN UserOwnedSpace \ DOMAIN UserOwnedSpace' :
       /\ u \notin DOMAIN UserHoldFileList'
       /\ \A k \in DOMAIN Bucket' : ~ OwnedBy(u, k)
       /\ \A h \in DOMAIN File' : PositionsOf(File'[h].owner, u) # {} =>
            \/ OwnerEntries(h, u) > Occurrences(h, HoldList(u))
            \/ \E m \in DOMAIN MinerItems' :
                 MinerItems'[m].service < Cardinality(FragmentsOn(h, m))]_vars

\* What a bucket or a hold list names is owned: clearing one of two holders, also
\* when it fails half way, never takes the other's entry off the owner list.
ListedIsOwned ==
  \A h \in Files :
    /\ \A k \in DOMAIN Bucket :
         Occurrences(h, Bucket[k]) <=
           (IF h \in DOMAIN File THEN Occurrences(k, File[h].owner) ELSE 0)
    /\ \A u \in Users :
         Occurrences(h, HoldList(u)) <= (IF h \in DOMAIN File THEN OwnerEntries(h, u) ELSE 0)

\* Service space is backed, also by clearings that fail half way, which is not
\* undone in a hook: the network total is exactly what is stored, and no miner is
\* credited with more fragments than it stores (remove_file_last_owner).
ServiceIsBacked ==
  /\ TotalServiceSpace = MapThenSumSet(LAMBDA h : Cardinality(DOMAIN File[h].frag), DOMAIN File)
  /\ \A m \in DOMAIN MinerItems \ DOMAIN RestoralTarget :
       MinerItems[m].service + TasksOf(m, InStage(2)) <= StoredOn(m)

\* The space counted as sold, which limits further sales, is exactly the sum of
\* the leases, whatever was bought, extended, renewed and cleared in between
\* (add_purchased_space, delete_user_space_storage).
PurchasedIsSumOfLeases ==
  PurchasedSpace =
    MapThenSumSet(LAMBDA u : UserOwnedSpace[u].total, DOMAIN UserOwnedSpace)

-----------------------------------------------------------------------------
(* Properties of miners *)

\* A miner whose day of locking is over leaves nothing behind: no deal that is
\* still on the agenda has given it fragments (miner_exit_prep, miner_exit).
LeaversHaveNoTasks ==
  \A m \in DOMAIN MinerItems : Left(m) => TasksOf(m, DOMAIN agenda) = 0


-----------------------------------------------------------------------------
(* What comments in the code say, and the code does not ensure *)

\* "The same file will only upload meta information once" (file-bank, comment of
\* transfer_report): while its deal is open, a file is listed for its user only
\* as often as the user was made an owner.
UploadedOnce ==
  \A h \in InStage(2) \cap DOMAIN File :
    Occurrences(h, HoldList(DealMap[h].user)) <= OwnerEntries(h, DealMap[h].user)

\* "The file is in a calculated tag state and cannot be deleted" (file-bank,
\* Error::Calculate): a file in state Calculate stays until it is Active.
CalculatingIsKept ==
  [][\A h \in DOMAIN File : File[h].stat = "Calculate" => h \in DOMAIN File']_vars

\* "it is necessary to determine whether the state meets the exit conditions
\* before use" (sminer, comment of withdraw): only a miner who has left withdraws.
WithdrawnHasLeft ==
  [][\A m \in DOMAIN MinerItems : m \notin DOMAIN MinerItems' => Left(m)]_vars
=============================================================================
