------------------------------- MODULE Deals --------------------------------
(***************************************************************************)
(* The deals of pallet file-bank: a user declares a file, random miners    *)
(* are assigned its fragments and report them; a deal that is not reported *)
(* in time is reassigned, and abandoned after MaxAttempts; a reported one  *)
(* becomes a file, which is settled when the miners have had time to tag   *)
(* the fragments.  The two time-outs are calls on pallet_scheduler's       *)
(* agenda, named by the deal's hash.                                       *)
(*                                                                         *)
(* Scheduling a name that is on the agenda fails.  A due call is taken off *)
(* the agenda and executed as a transaction; when it fails it is not tried *)
(* again.                                                                  *)
(***************************************************************************)
EXTENDS FileBankState

\* start_first_task: attempt count has to be reported within a time that grows
\* with count.
TransferLife(segs) == ((CalFileSize(segs) * FragmentSize) \div TransferRate) + 1

FirstTask(count, segs) ==
  [at |-> now + RetryStep * count + TransferLife(segs),
   call |-> "deal_reassign_miner", count |-> count]

\* start_second_task: the miner with most fragments sets the pace.
SecondTask(deal) ==
  LET most == Max({TaskCount(deal)[m] : m \in Miners}) * FragmentSize
  IN  [at |-> now + (most \div TransferRate) + 1 + (most \div CalculateRate) + 1,
       call |-> "calculate_end", count |-> 0]

NewDeal(u, b, segs, a) ==
  [stage |-> 1, count |-> 0, segs |-> segs, user |-> u, bucket |-> b,
   assigned |-> a.assigned, place |-> a.place, complete |-> {}]

\* generate_deal: assigns and locks miners' space, schedules the time-out.
GenerateDeal(u, b, h, segs) ==
  \E a \in Assignments(MinerItems, AllMiner, segs) :
    LET deal == NewDeal(u, b, segs, a)
    IN  /\ CanLockSpace(MinerItems, TaskCount(deal))
        /\ MinerItems' = LockSpace(MinerItems, TaskCount(deal))
        /\ h \notin DOMAIN agenda
        /\ agenda' = InsertKey(agenda, h, FirstTask(1, segs))
        /\ DealMap' = InsertKey(DealMap, h, deal)

\* upload_declaration of a file that is not on the chain.  Only a frozen lease is
\* refused, not a dead one.  To declare it over a deal whose scheduled call has
\* failed is a call of its own in Calls, "declare_over_stuck".
DeclareDeal(u, b, h, segs) ==
  /\ Submit("upload_declaration")
  /\ u \in DOMAIN UserOwnedSpace
  /\ UserOwnedSpace[u].remaining > CalFileSize(segs)
  /\ h \notin DOMAIN File
  /\ h \in DOMAIN DealMap \ DOMAIN agenda => "declare_over_stuck" \in Calls
  /\ CanLockUserSpace(UserOwnedSpace[u], CalFileSize(segs))
  /\ UserOwnedSpace' = [UserOwnedSpace EXCEPT ![u] = LockUserSpace(@, CalFileSize(segs))]
  /\ GenerateDeal(u, b, h, segs)
  /\ UNCHANGED <<chain, exitAgenda, files, fillers, restoral, AllMiner,
                 TotalIdleSpace, TotalServiceSpace, PurchasedSpace>>

-----------------------------------------------------------------------------
\* The scheduler executes the call of deal h.
Due(h, call) ==
  /\ phase = "scheduler"
  /\ h \in DOMAIN agenda
  /\ agenda[h].at = now
  /\ agenda[h].call = call

\* Mutant: one attempt too many.
MutantLastAttempt(h) == agenda[h].count > MaxAttempts

LastAttempt(h) == agenda[h].count >= MaxAttempts

CanUnlockDeal(h) ==
  h \in DOMAIN DealMap /\ CanUnlockSpace(MinerItems, TaskCount(DealMap[h]))

Unlocked(h) == UnlockSpace(MinerItems, TaskCount(DealMap[h]))

\* Mutant: reports of the former miners are kept.
MutantReportsKept(h, a) ==
  [DealMap[h] EXCEPT !.assigned = a.assigned, !.place = a.place, !.count = agenda[h].count]

\* Mutant: the attempt is not counted.
MutantAttemptUncounted(h, a) ==
  [DealMap[h] EXCEPT !.assigned = a.assigned, !.place = a.place, !.complete = {}]

Redrawn(h, a) ==
  [DealMap[h] EXCEPT !.assigned = a.assigned, !.place = a.place,
                     !.complete = {}, !.count = agenda[h].count]

\* Mutant: no time-out is scheduled for the new miners.
MutantNoRestart(h, segs) == RemoveKey(agenda, h)

RestartFirstTask(h, segs) == [agenda EXCEPT ![h] = FirstTask(agenda[h].count + 1, segs)]

\* deal_reassign_miner, attempts left: the miners are drawn again.
DealReassignMiner(h) ==
  /\ Due(h, "deal_reassign_miner") /\ ~ LastAttempt(h)
  /\ CanUnlockDeal(h)
  /\ \E a \in Assignments(Unlocked(h), AllMiner, DealMap[h].segs) :
       LET deal == Redrawn(h, a)
       IN  /\ CanLockSpace(Unlocked(h), TaskCount(deal))
           /\ MinerItems' = LockSpace(Unlocked(h), TaskCount(deal))
           /\ DealMap' = [DealMap EXCEPT ![h] = deal]
           /\ agenda' = RestartFirstTask(h, deal.segs)
  /\ UNCHANGED <<chain, exitAgenda, files, fillers, restoral, AllMiner, space>>

CanUnlockDealUser(h) ==
  /\ DealMap[h].user \in DOMAIN UserOwnedSpace
  /\ CanUnlockUserSpace(UserOwnedSpace[DealMap[h].user], CalFileSize(DealMap[h].segs))

\* Mutant: the user's lock is forgotten.
MutantAbandonKeepsLock(h) ==
  /\ Due(h, "deal_reassign_miner") /\ LastAttempt(h)
  /\ CanUnlockDeal(h) /\ CanUnlockDealUser(h)
  /\ MinerItems' = Unlocked(h)
  /\ DealMap' = RemoveKey(DealMap, h)
  /\ agenda' = RemoveKey(agenda, h)
  /\ UNCHANGED <<chain, exitAgenda, files, fillers, restoral, AllMiner, space>>

\* deal_reassign_miner after the last attempt: the deal is abandoned.
AbandonDeal(h) ==
  /\ Due(h, "deal_reassign_miner") /\ LastAttempt(h)
  /\ CanUnlockDeal(h) /\ CanUnlockDealUser(h)
  /\ UserOwnedSpace' = [UserOwnedSpace EXCEPT ![DealMap[h].user] =
                          UnlockUserSpace(@, CalFileSize(DealMap[h].segs))]
  /\ MinerItems' = Unlocked(h)
  /\ DealMap' = RemoveKey(DealMap, h)
  /\ agenda' = RemoveKey(agenda, h)
  /\ UNCHANGED <<chain, exitAgenda, files, fillers, restoral, AllMiner,
                 TotalIdleSpace, TotalServiceSpace, PurchasedSpace>>

\* deal_reassign_miner fails: its writes are undone and it is gone.
ReassignMayFail(h) ==
  \/ ~ CanUnlockDeal(h)
  \/ IF LastAttempt(h) THEN ~ CanUnlockDealUser(h)
     ELSE AssignMayFail(Unlocked(h), AllMiner, DealMap[h].segs)

\* Mutant: the unlocking done before the error stays.
MutantFailureUnlocks(h) ==
  /\ Due(h, "deal_reassign_miner")
  /\ ReassignMayFail(h) /\ CanUnlockDeal(h)
  /\ agenda' = RemoveKey(agenda, h)
  /\ MinerItems' = Unlocked(h)
  /\ UNCHANGED <<chain, exitAgenda, DealMap, files, fillers, restoral, AllMiner, space>>

ReassignFails(h) ==
  /\ Due(h, "deal_reassign_miner")
  /\ ReassignMayFail(h)
  /\ agenda' = RemoveKey(agenda, h)
  /\ UNCHANGED <<chain, exitAgenda, DealMap, files, fillers, restoral, miners, space>>

-----------------------------------------------------------------------------
\* generate_file
GenerateFile(deal) ==
  [segs |-> deal.segs,
   frag |-> [f \in Kept(deal.assigned, deal.place, deal.segs) |->
               [miner |-> deal.place[f], avail |-> TRUE]],
   owner |-> << <<deal.user, deal.bucket>> >>,
   stat |-> "Calculate"]

\* Mutant: the stage is not advanced.
MutantStageKept(deal) == deal

Completed(deal) == [deal EXCEPT !.stage = 2]

\* transfer_report of the last assigned miner: the deal becomes a file.
CompleteDeal(h, deal) ==
  LET u == deal.user
      size == CalFileSize(deal.segs)
  IN  /\ DealMap' = [DealMap EXCEPT ![h] = Completed(deal)]
      /\ File' = InsertKey(File, h, GenerateFile(deal))
      /\ PendingReplacements' =
           [m \in Miners |-> PendingReplacements[m] + TaskCount(deal)[m]]
      /\ u \in DOMAIN UserOwnedSpace /\ CanUnlockUserSpace(UserOwnedSpace[u], size)
      /\ UserOwnedSpace' = [UserOwnedSpace EXCEPT ![u] = UnlockAndUsedUserSpace(@, size)]
      /\ size <= TotalIdleSpace
      /\ TotalIdleSpace' = TotalIdleSpace - size
      /\ TotalServiceSpace' = TotalServiceSpace + size
      /\ agenda' = InsertKey(agenda, h, SecondTask(deal))
      /\ AddToBucket(u, deal.bucket, h)
      /\ AddUserHold(u, h)
      /\ UNCHANGED <<chain, exitAgenda, ClearUserList, Fillers, restoral, miners, PurchasedSpace>>

\* transfer_report for one deal.  Reports of a deal the miner is not assigned to
\* change nothing; a miner's second report of a deal is a call of its own in
\* Calls, "transfer_report_again".
TransferReport(m, h) ==
  /\ h \in DOMAIN DealMap
  /\ m \in DealMap[h].assigned
  /\ Submit(IF m \in DealMap[h].complete THEN "transfer_report_again" ELSE "transfer_report")
  /\ LET deal == [DealMap[h] EXCEPT !.complete = @ \cup {m}]
     IN  IF Cardinality(deal.complete) = Cardinality(deal.assigned)
         THEN CompleteDeal(h, deal)
         ELSE /\ DealMap' = [DealMap EXCEPT ![h] = deal]
              /\ UNCHANGED <<chain, tasks, files, fillers, restoral, miners, space>>

CanSettle(h) ==
  /\ h \in DOMAIN DealMap \cap DOMAIN File
  /\ CanUnlockSpaceToService(MinerItems, TaskCount(DealMap[h]))

\* Mutant: the file stays in the state Calculate.
MutantStaysCalculate(h) == File

Settled(h) == [File EXCEPT ![h].stat = "Active"]

\* calculate_end: the locked space becomes service space.
CalculateEnd(h) ==
  /\ Due(h, "calculate_end")
  /\ CanSettle(h)
  /\ MinerItems' = UnlockSpaceToService(MinerItems, TaskCount(DealMap[h]))
  /\ File' = Settled(h)
  /\ DealMap' = RemoveKey(DealMap, h)
  /\ agenda' = RemoveKey(agenda, h)
  /\ UNCHANGED <<chain, exitAgenda, Bucket, UserHoldFileList, ClearUserList,
                 fillers, restoral, AllMiner, space>>

\* calculate_end fails: the deal stays in stage 2 and is not tried again.
CalculateFails(h) ==
  /\ Due(h, "calculate_end")
  /\ ~ CanSettle(h)
  /\ agenda' = RemoveKey(agenda, h)
  /\ UNCHANGED <<chain, exitAgenda, DealMap, files, fillers, restoral, miners, space>>

-----------------------------------------------------------------------------
DealNext ==
  \/ \E u \in Users, b \in Buckets, h \in Files, segs \in SegmentCounts :
       DeclareDeal(u, b, h, segs)
  \/ \E h \in Files : \/ DealReassignMiner(h) \/ AbandonDeal(h) \/ ReassignFails(h)
                      \/ CalculateEnd(h) \/ CalculateFails(h)
  \/ \E m \in Miners, h \in Files : TransferReport(m, h)
=============================================================================
