------------------------------ MODULE FileBank ------------------------------
(***************************************************************************)
(* Pallet file-bank as a whole.  A block first executes the due calls of   *)
(* pallet_scheduler, then file-bank's on_initialize, then extrinsics; the  *)
(* order follows from the pallets' places in construct_runtime!.           *)
(***************************************************************************)
EXTENDS Deals, LeaseClearing, MinerFiles

NextBlock ==
  /\ phase = "extrinsics"
  /\ now < MaxBlock
  /\ now' = now + 1
  /\ phase' = "scheduler"
  /\ UNCHANGED <<tasks, DealMap, files, fillers, restoral, miners, space>>

SchedulerDone ==
  /\ phase = "scheduler"
  /\ \A h \in DOMAIN agenda : agenda[h].at # now
  /\ \A m \in DOMAIN exitAgenda : exitAgenda[m] # now
  /\ phase' = "hook"
  /\ UNCHANGED <<now, tasks, DealMap, files, fillers, restoral, miners, space>>

Next == DealNext \/ UserNext \/ LeaseNext \/ MinerNext \/ NextBlock \/ SchedulerDone

Spec == Init /\ [][Next]_vars

-----------------------------------------------------------------------------
(* Properties of deals, files and orders; FileBankBooks has those of space *)

\* A time-out never meets a deal in another stage: a scheduled
\* deal_reassign_miner belongs to a deal that is still being transferred, with
\* the next attempt's number, and a scheduled calculate_end to one whose file is
\* being tagged; neither is left behind in the past (start_first_task,
\* start_second_task, cancel_named in transfer_report).
AgendaMatchesDeals ==
  \A h \in DOMAIN agenda :
    /\ now <= agenda[h].at
    /\ h \in DOMAIN DealMap
    /\ IF agenda[h].call = "calculate_end" THEN DealMap[h].stage = 2
       ELSE DealMap[h].stage = 1 /\ agenda[h].count = DealMap[h].count + 1

\* A file that is being tagged has the deal that will settle it, and a file that
\* is not has none: no deal is dropped, abandoned, settled or declared again while
\* its file waits for calculate_end, and none is left for a file in use.
CalculatingHasDeal ==
  \A h \in DOMAIN File :
    IF File[h].stat = "Calculate" THEN h \in DOMAIN DealMap /\ DealMap[h].stage = 2
    ELSE h \notin DOMAIN DealMap

\* A deal is in stage 2 exactly when every assigned miner has reported it, and
\* only assigned miners have: reports of an earlier assignment are forgotten
\* when deal_reassign_miner draws new miners.
StageIsReported ==
  \A h \in DOMAIN DealMap :
    /\ DealMap[h].complete \subseteq DealMap[h].assigned
    /\ DealMap[h].stage = 2 <=> DealMap[h].complete = DealMap[h].assigned

\* A fragment that is marked lost has an open order that will move it from the
\* miner it is recorded on: no claim, expiry, completion, or deletion and new
\* upload of the file leaves a lost fragment that nobody can restore.
LostHasOrder ==
  \A h \in DOMAIN File : \A f \in DOMAIN File[h].frag :
    ~ File[h].frag[f].avail =>
      /\ <<h, f>> \in DOMAIN RestoralOrder
      /\ RestoralOrder[<<h, f>>].origin_miner = File[h].frag[f].miner

\* The stage of a file and the attempt at transferring it, as DealLifecycle has
\* them.  A deal in stage 2 whose file was removed is no longer a file's.
StageOf(h) ==
  IF h \in DOMAIN File THEN IF File[h].stat = "Active" THEN "stored" ELSE "tagging"
  ELSE IF h \in DOMAIN DealMap /\ DealMap[h].stage = 1 THEN "transfer" ELSE "absent"

AttemptOf(h) == IF StageOf(h) = "transfer" THEN DealMap[h].count + 1 ELSE 0

Lifecycle == INSTANCE DealLifecycle WITH
  stage <- [h \in Files |-> StageOf(h)],
  attempt <- [h \in Files |-> AttemptOf(h)]

\* Deals, reports, time-outs and deletions implement the life of a file that
\* DealLifecycle describes.
ImplementsLifecycle == Lifecycle!Spec
=============================================================================
