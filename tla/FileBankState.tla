--------------------------- MODULE FileBankState ----------------------------
(***************************************************************************)
(* The storage of pallet file-bank, and of the pallets whose storage its   *)
(* calls change: leases and totals (storage-handler), miners' space        *)
(* (sminer) and the agenda of pallet_scheduler (external).  The modules    *)
(* Deals, UserFiles and MinerFiles hold the calls, FileBank composes them. *)
(*                                                                         *)
(* Names, hashes and sizes are abstracted: files, buckets, users and       *)
(* miners are model values, sizes are counted in fragments.  Fillers are   *)
(* counted, their identity is never read.  UserBucketList lists the keys   *)
(* of Bucket and is left out, as are gen_block and completion (never read).*)
(***************************************************************************)
EXTENDS UserSpace, StorageMap, Assignment

CONSTANTS Users, Miners, Files, Buckets,
          MinerOrder,      \* Miners in the order of their account ids
          SegmentCounts,   \* numbers of segments users declare files with
          InitialFillers,  \* miner -> fillers uploaded before the start
          InitialSpace,    \* user -> total of the lease bought before the start
          MaxAttempts,     \* assignments before a deal is abandoned (5)
          RetryStep,       \* blocks a deadline grows by per attempt (50)
          FragmentSize,    \* FRAGMENT_SIZE, in the unit of the two rates
          TransferRate,    \* TRANSFER_RATE: stored per block
          CalculateRate,   \* CALCULATE_RATE: tagged per block
          RestoralLife,    \* blocks a claim lasts (T::RestoralOrderLife)
          TiB,             \* T_BYTE, in fragments
          ClearLimit,      \* file count at which lease clearing stops (300)
          ClearListLimit,  \* bound of ClearUserList (5000)
          MaxFillers,      \* bound on the fillers of one miner
          MaxBlock,        \* bound on the block number
          Leavers,         \* the miners who may leave in this instance
          Calls            \* the extrinsics accounts submit in this instance

ASSUME FileBankAssumption ==
  /\ IsFiniteSet(Miners)
  /\ MinerOrder \in Seq(Miners)
  /\ SegmentCounts \subseteq Nat
  /\ InitialFillers \in [Miners -> Nat]
  /\ InitialSpace \in [Users -> Nat]
  /\ MaxAttempts \in Nat \ {0}
  /\ {RetryStep, FragmentSize, RestoralLife, ClearLimit,
      ClearListLimit, MaxFillers, MaxBlock} \subseteq Nat
  /\ {TransferRate, CalculateRate, TiB} \subseteq Nat \ {0}

VARIABLES now,                  \* frame_system block number
          phase,                \* how far the current block has been executed
          agenda,               \* deal hash -> scheduled call (pallet_scheduler)
          exitAgenda,           \* miner -> block of the scheduled miner_exit
          DealMap, File, Bucket, UserHoldFileList, ClearUserList,
          Fillers,              \* size of FillerMap's prefix per miner
          PendingReplacements, MinerLock, RestoralTarget, RestoralOrder,
          MinerItems, AllMiner,                      \* sminer
          UserOwnedSpace, TotalIdleSpace, TotalServiceSpace, PurchasedSpace

chain == <<now, phase>>
tasks == <<agenda, exitAgenda>>
files == <<File, Bucket, UserHoldFileList, ClearUserList>>
fillers == <<Fillers, PendingReplacements>>
restoral == <<MinerLock, RestoralTarget, RestoralOrder>>
miners == <<MinerItems, AllMiner>>
space == <<UserOwnedSpace, TotalIdleSpace, TotalServiceSpace, PurchasedSpace>>
vars == <<chain, tasks, DealMap, files, fillers, restoral, miners, space>>

-----------------------------------------------------------------------------
Phase == {"scheduler", "hook", "extrinsics"}

\* The call a deal has on the agenda, and the block it is due at.
Task == [at: Nat, call: {"deal_reassign_miner", "calculate_end"}, count: Nat]

Brief == Users \X Buckets

\* A deal for a file of that many segments; place is the fragment lists of
\* assigned_miner, turned round.
DealInfo(segs) ==
  [stage: {1, 2}, count: Nat, segs: Nat, user: Users, bucket: Buckets,
   assigned: SUBSET Miners, place: [Frags(segs) -> Miners], complete: SUBSET Miners]

IsDeal(d) == d.segs \in Nat /\ d \in DealInfo(d.segs)

Fragment == [miner: Miners, avail: BOOLEAN]

IsFile(f) ==
  /\ f.segs \in Nat
  /\ IsMap(f.frag, Frags(f.segs), Fragment)
  /\ f.owner \in Seq(Brief)
  /\ f.stat \in {"Active", "Calculate"}

FragmentHash == Files \X (Nat \X Nat)

Order == [miner: Miners, origin_miner: Miners, deadline: Nat]

Target == [service: Nat, restored: Nat, cooling: Nat]

TypeOK ==
  /\ now \in Nat /\ phase \in Phase
  /\ IsMap(agenda, Files, Task)
  /\ IsMap(exitAgenda, Miners, Nat)
  /\ DOMAIN DealMap \subseteq Files /\ \A h \in DOMAIN DealMap : IsDeal(DealMap[h])
  /\ DOMAIN File \subseteq Files /\ \A h \in DOMAIN File : IsFile(File[h])
  /\ IsMap(Bucket, Brief, Seq(Files))
  /\ IsMap(UserHoldFileList, Users, Seq(Files))
  /\ ClearUserList \subseteq Users
  /\ Fillers \in [Miners -> Nat] /\ PendingReplacements \in [Miners -> Nat]
  /\ IsMap(MinerLock, Miners, Nat)
  /\ IsMap(RestoralTarget, Miners, Target)
  /\ IsMap(RestoralOrder, FragmentHash, Order)
  /\ IsMap(MinerItems, Miners, MinerInfo) /\ AllMiner \subseteq Miners
  /\ IsMap(UserOwnedSpace, Users, Lease)
  /\ {TotalIdleSpace, TotalServiceSpace, PurchasedSpace} \subseteq Nat

\* The start: block 1, in which the miners have registered and uploaded fillers
\* and the users have bought their leases.
Init ==
  /\ now = 1 /\ phase = "extrinsics"
  /\ agenda = EmptyMap /\ exitAgenda = EmptyMap
  /\ DealMap = EmptyMap /\ File = EmptyMap
  /\ Bucket = EmptyMap /\ UserHoldFileList = EmptyMap /\ ClearUserList = {}
  /\ Fillers = InitialFillers /\ PendingReplacements = [m \in Miners |-> 0]
  /\ MinerLock = EmptyMap /\ RestoralTarget = EmptyMap /\ RestoralOrder = EmptyMap
  /\ MinerItems = [m \in Miners |-> [NewMiner EXCEPT !.idle = InitialFillers[m]]]
  /\ AllMiner = Miners
  /\ UserOwnedSpace = [u \in Users |-> AddUserPurchasedSpace(1, InitialSpace[u])]
  /\ TotalIdleSpace = MapThenSumSet(LAMBDA m : InitialFillers[m], Miners)
  /\ TotalServiceSpace = 0
  /\ PurchasedSpace = MapThenSumSet(LAMBDA u : InitialSpace[u], Users)

-----------------------------------------------------------------------------
\* An account submits this extrinsic: only while the block takes extrinsics.
Submit(call) == call \in Calls /\ phase = "extrinsics"

\* The fragments of a deal per miner: the lengths of its task lists.
TaskCount(deal) ==
  [m \in Miners |-> Cardinality({f \in Frags(deal.segs) : deal.place[f] = m})]

\* add_file_to_bucket, or create_bucket_helper with the file, when the bucket
\* does not exist; bucket names are taken to meet check_bucket_name_spec.
AddToBucket(u, b, h) ==
  Bucket' = InsertKey(Bucket, <<u, b>>,
              IF <<u, b>> \in DOMAIN Bucket THEN Append(Bucket[<<u, b>>], h) ELSE <<h>>)

\* UserHoldFileList is a ValueQuery map: a missing entry reads as empty.
HoldList(u) == IF u \in DOMAIN UserHoldFileList THEN UserHoldFileList[u] ELSE << >>

\* add_user_hold_fileslice
AddUserHold(u, h) ==
  UserHoldFileList' = InsertKey(UserHoldFileList, u, Append(HoldList(u), h))
=============================================================================
