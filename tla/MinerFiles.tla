----------------------------- MODULE MinerFiles -----------------------------
(***************************************************************************)
(* The miners' side of pallet file-bank: fillers, orders to restore lost   *)
(* fragments, and leaving the network.  Of pallet sminer it has the        *)
(* registration (regnstk).  Extrinsics that take lists of fillers are      *)
(* modelled for one filler.                                                *)
(***************************************************************************)
EXTENDS FileBankState

\* Accounts left in AllMiner by a withdrawal do not register again here.
Regnstk(m) ==
  /\ Submit("regnstk")
  /\ m \notin DOMAIN MinerItems /\ m \notin AllMiner
  /\ MinerItems' = InsertKey(MinerItems, m, NewMiner)
  /\ AllMiner' = AllMiner \cup {m}
  /\ UNCHANGED <<chain, tasks, DealMap, files, fillers, restoral, space>>

UploadFiller(m) ==
  /\ Submit("upload_filler")
  /\ Fillers[m] < MaxFillers
  /\ IsPositive(MinerItems, m)
  /\ Fillers' = [Fillers EXCEPT ![m] = @ + 1]
  /\ MinerItems' = AddIdleSpace(MinerItems, m, 1)
  /\ TotalIdleSpace' = TotalIdleSpace + 1
  /\ UNCHANGED <<chain, tasks, DealMap, files, PendingReplacements, restoral, AllMiner,
                 UserOwnedSpace, TotalServiceSpace, PurchasedSpace>>

\* Mutant: the idle space stays.
MutantDeleteFillerKeepsIdle(m) ==
  /\ Submit("delete_filler")
  /\ IsPositive(MinerItems, m)
  /\ Fillers[m] > 0
  /\ Fillers' = [Fillers EXCEPT ![m] = @ - 1]
  /\ UNCHANGED <<chain, tasks, DealMap, files, PendingReplacements, restoral, miners, space>>

DeleteFiller(m) ==
  /\ Submit("delete_filler")
  /\ IsPositive(MinerItems, m)
  /\ Fillers[m] > 0
  /\ CanSubIdleSpace(MinerItems, m, 1) /\ 1 <= TotalIdleSpace
  /\ MinerItems' = SubIdleSpace(MinerItems, m, 1)
  /\ TotalIdleSpace' = TotalIdleSpace - 1
  /\ Fillers' = [Fillers EXCEPT ![m] = @ - 1]
  /\ UNCHANGED <<chain, tasks, DealMap, files, PendingReplacements, restoral, AllMiner,
                 UserOwnedSpace, TotalServiceSpace, PurchasedSpace>>

\* replace_file_report: a filler makes room for a fragment stored earlier.
ReplaceFileReport(m) ==
  /\ Submit("replace_file_report")
  /\ PendingReplacements[m] > 0 /\ Fillers[m] > 0
  /\ Fillers' = [Fillers EXCEPT ![m] = @ - 1]
  /\ PendingReplacements' = [PendingReplacements EXCEPT ![m] = @ - 1]
  /\ UNCHANGED <<chain, tasks, DealMap, files, restoral, miners, space>>

-----------------------------------------------------------------------------
\* Fragment f of file h is on the chain, and stored by miner m.
StoredBy(h, f, m) ==
  h \in DOMAIN File /\ f \in DOMAIN File[h].frag /\ File[h].frag[f].miner = m

\* Both ways of opening an order mark the fragment as not available.
OpenOrder(h, f, order) ==
  /\ <<h, f>> \notin DOMAIN RestoralOrder
  /\ RestoralOrder' = InsertKey(RestoralOrder, <<h, f>>, order)
  /\ File' = [File EXCEPT ![h].frag[f].avail = FALSE]
  /\ UNCHANGED <<chain, tasks, DealMap, Bucket, UserHoldFileList, ClearUserList, fillers,
                 MinerLock, RestoralTarget, miners, space>>

GenerateRestoralOrder(m, h, f) ==
  /\ Submit("generate_restoral_order")
  /\ StoredBy(h, f, m)
  /\ OpenOrder(h, f, [miner |-> m, origin_miner |-> m, deadline |-> 0])

\* Mutant: the claimer is recorded as the origin.
MutantNoexistOrder(m, gone) ==
  [miner |-> m, origin_miner |-> m, deadline |-> now + RestoralLife]

NoexistOrder(m, gone) ==
  [miner |-> m, origin_miner |-> gone, deadline |-> now + RestoralLife]

\* claim_restoral_noexist_order: a fragment of a miner who has left.
ClaimRestoralNoexistOrder(m, gone, h, f) ==
  /\ Submit("claim_restoral_noexist_order")
  /\ IsPositive(MinerItems, m)
  /\ gone \in DOMAIN RestoralTarget
  /\ StoredBy(h, f, gone)
  /\ OpenOrder(h, f, NoexistOrder(m, gone))

\* Mutant: the claimer is also recorded as the origin.
MutantClaimed(order, m) ==
  [order EXCEPT !.miner = m, !.origin_miner = m, !.deadline = now + RestoralLife]

Claimed(order, m) == [order EXCEPT !.miner = m, !.deadline = now + RestoralLife]

ClaimRestoralOrder(m, h, f) ==
  /\ Submit("claim_restoral_order")
  /\ IsPositive(MinerItems, m)
  /\ <<h, f>> \in DOMAIN RestoralOrder
  /\ now > RestoralOrder[<<h, f>>].deadline
  /\ RestoralOrder' = [RestoralOrder EXCEPT ![<<h, f>>] = Claimed(@, m)]
  /\ UNCHANGED <<chain, tasks, DealMap, files, fillers, MinerLock, RestoralTarget, miners, space>>

\* Mutant: forgets that the exited miner's space has been restored.
MutantMoveUncounted(m, from, h, f) ==
  /\ CanSubServiceSpace(MinerItems, from, 1)
  /\ MinerItems' = AddServiceSpace(SubServiceSpace(MinerItems, from, 1), m, 1)
  /\ File' = [File EXCEPT ![h].frag[f] = [miner |-> m, avail |-> TRUE]]
  /\ UNCHANGED RestoralTarget

\* restoral_order_complete moves the fragment to m.
MoveFragment(m, from, h, f) ==
  /\ CanSubServiceSpace(MinerItems, from, 1)
  /\ MinerItems' = AddServiceSpace(SubServiceSpace(MinerItems, from, 1), m, 1)
  /\ RestoralTarget' = IF from \in DOMAIN RestoralTarget
                       THEN [RestoralTarget EXCEPT ![from].restored = @ + 1]
                       ELSE RestoralTarget
  /\ File' = [File EXCEPT ![h].frag[f] = [miner |-> m, avail |-> TRUE]]

\* The order is closed even when the file is gone or the fragment has moved.
RestoralOrderComplete(m, h, f) ==
  /\ Submit("restoral_order_complete")
  /\ IsPositive(MinerItems, m)
  /\ <<h, f>> \in DOMAIN RestoralOrder
  /\ RestoralOrder[<<h, f>>].miner = m
  /\ now < RestoralOrder[<<h, f>>].deadline
  /\ RestoralOrder' = RemoveKey(RestoralOrder, <<h, f>>)
  /\ LET from == RestoralOrder[<<h, f>>].origin_miner
     IN  IF StoredBy(h, f, from) THEN MoveFragment(m, from, h, f)
         ELSE UNCHANGED <<File, MinerItems, RestoralTarget>>
  /\ UNCHANGED <<chain, tasks, DealMap, Bucket, UserHoldFileList, ClearUserList, fillers,
                 MinerLock, AllMiner, space>>

-----------------------------------------------------------------------------
\* Mutant: the miner is let go in the next block.
MutantLockTime == now + 1

LockTime == now + OneDay

\* miner_exit_prep: from now on the miner gets no deals; its exit is scheduled
\* a day later, under the miner's name.
MinerExitPrep(m) ==
  /\ Submit("miner_exit_prep") /\ m \in Leavers
  /\ m \in DOMAIN MinerLock => now > MinerLock[m]
  /\ IsPositive(MinerItems, m)
  /\ MinerItems' = UpdateMinerState(MinerItems, m, "lock")
  /\ MinerLock' = InsertKey(MinerLock, m, LockTime)
  /\ m \notin DOMAIN exitAgenda
  /\ exitAgenda' = InsertKey(exitAgenda, m, LockTime)
  /\ UNCHANGED <<chain, agenda, DealMap, files, fillers, RestoralTarget, RestoralOrder,
                 AllMiner, space>>


\* create_restoral_target
NewTarget(service) ==
  [service |-> service, restored |-> 0, cooling |-> now + ((service \div TiB) + 1) * OneDay]


\* clear_filler, execute_exit or force_miner_exit of sminer, and
\* create_restoral_target.  The record's idle and locked space stay.
Leave(m, state) ==
  /\ MinerItems[m].idle <= TotalIdleSpace
  /\ TotalIdleSpace' = TotalIdleSpace - MinerItems[m].idle
  /\ MinerItems' = [MinerItems EXCEPT ![m].state = state]
  /\ AllMiner' = AllMiner \ {m}
  /\ RestoralTarget' = InsertKey(RestoralTarget, m, NewTarget(MinerItems[m].service))
  /\ Fillers' = [Fillers EXCEPT ![m] = 0]

ExitDue(m) == phase = "scheduler" /\ m \in DOMAIN exitAgenda /\ exitAgenda[m] = now

\* miner_exit, a call of the scheduler.
MinerExit(m) ==
  /\ ExitDue(m)
  /\ IsLock(MinerItems, m)
  /\ Leave(m, "exit")
  /\ exitAgenda' = RemoveKey(exitAgenda, m)
  /\ UNCHANGED <<chain, agenda, DealMap, files, PendingReplacements, MinerLock, RestoralOrder,
                 UserOwnedSpace, TotalServiceSpace, PurchasedSpace>>

MinerExitFails(m) ==
  /\ ExitDue(m)
  /\ ~ (IsLock(MinerItems, m) /\ MinerItems[m].idle <= TotalIdleSpace)
  /\ exitAgenda' = RemoveKey(exitAgenda, m)
  /\ UNCHANGED <<chain, agenda, DealMap, files, fillers, restoral, miners, space>>

\* force_miner_exit, which audit's clear_challenge calls from its hook: there is
\* no lock period.  (When the total cannot be lowered only the fillers go.)
ForceMinerExit(m) ==
  /\ Submit("force_miner_exit") /\ m \in Leavers
  /\ m \in DOMAIN MinerItems
  /\ \/ Leave(m, "offline")
     \/ /\ MinerItems[m].idle > TotalIdleSpace
        /\ Fillers' = [Fillers EXCEPT ![m] = 0]
        /\ UNCHANGED <<TotalIdleSpace, miners, RestoralTarget>>
  /\ UNCHANGED <<chain, tasks, DealMap, files, PendingReplacements, MinerLock, RestoralOrder,
                 UserOwnedSpace, TotalServiceSpace, PurchasedSpace>>

\* miner_withdraw: the target of the exit is checked and stays; the state of
\* the miner is not checked.  A miner who has not left is a call of its own in
\* Calls, "miner_withdraw_active".
MinerWithdraw(m) ==
  /\ m \in DOMAIN RestoralTarget
  /\ \/ now >= RestoralTarget[m].cooling
     \/ RestoralTarget[m].restored = RestoralTarget[m].service
  /\ m \in DOMAIN MinerItems
  /\ Submit(IF MinerItems[m].state \in {"exit", "offline"}
            THEN "miner_withdraw" ELSE "miner_withdraw_active")
  /\ MinerItems' = RemoveKey(MinerItems, m)
  /\ UNCHANGED <<chain, tasks, DealMap, files, fillers, restoral, AllMiner, space>>

-----------------------------------------------------------------------------
\* Fragments that exist in some instance of a file.
AnyFrag == UNION {Frags(segs) : segs \in SegmentCounts}

MinerNext ==
  \E m \in Miners :
    \/ Regnstk(m) \/ UploadFiller(m) \/ DeleteFiller(m) \/ ReplaceFileReport(m)
    \/ MinerExitPrep(m) \/ MinerExit(m) \/ MinerExitFails(m) \/ ForceMinerExit(m)
    \/ MinerWithdraw(m)
    \/ \E h \in Files, f \in AnyFrag :
         \/ GenerateRestoralOrder(m, h, f) \/ ClaimRestoralOrder(m, h, f)
         \/ RestoralOrderComplete(m, h, f)
         \/ \E gone \in Miners : ClaimRestoralNoexistOrder(m, gone, h, f)
=============================================================================
