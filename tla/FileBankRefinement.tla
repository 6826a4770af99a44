------------------------- MODULE FileBankRefinement -------------------------
(***************************************************************************)
(* Pallet file-bank implements DealLifecycle, for every instance in which  *)
(* miners do not repeat reports and no file is declared over a deal whose  *)
(* scheduled call has failed.                                              *)
(***************************************************************************)
EXTENDS FileBankProofs

Regular == "transfer_report_again" \notin Calls /\ "declare_over_stuck" \notin Calls

lifecycle == <<[h \in Files |-> StageOf(h)], [h \in Files |-> AttemptOf(h)]>>

\* A step that touches no deal and no file but h's.
OnlyTouches(h) ==
  \A g \in Files : g # h =>
    /\ g \in DOMAIN DealMap' <=> g \in DOMAIN DealMap
    /\ g \in DOMAIN DealMap => DealMap'[g] = DealMap[g]
    /\ g \in DOMAIN File' <=> g \in DOMAIN File
    /\ g \in DOMAIN File => File'[g] = File[g]

\* Such a step moves h alone.
LEMMA MoveStep ==
  ASSUME NEW h \in Files, OnlyTouches(h),
         NEW from, NEW to, NEW n, StageOf(h) = from, StageOf(h)' = to, AttemptOf(h)' = n
  PROVE  Lifecycle!Move(h, from, to, n)
<1>1. \A g \in Files : g # h => StageOf(g)' = StageOf(g)
  BY DEF OnlyTouches, StageOf
<1>2. \A g \in Files : g # h => AttemptOf(g)' = AttemptOf(g)
  BY <1>1 DEF OnlyTouches, AttemptOf, StageOf
<1> QED
  BY <1>1, <1>2, Zenon DEF Lifecycle!Move

\* Steps that take files away, or none, and leave the deals alone.
LEMMA RemovalStep ==
  ASSUME IInv, UNCHANGED DealMap, DOMAIN File' \subseteq DOMAIN File,
         \A h \in DOMAIN File' : File'[h].stat = File[h].stat
  PROVE  Lifecycle!Next
<1> DEFINE gone == {h \in Files : h \in DOMAIN File /\ h \notin DOMAIN File'}
<1>1. \A h \in gone : /\ StageOf(h) \in {"tagging", "stored"} /\ AttemptOf(h) = 0
                      /\ StageOf(h)' = "absent" /\ AttemptOf(h)' = 0
  BY DEF StageOf, AttemptOf, IInv, FileInv, FilesTyped, CalculatingHasDeal
<1>2. \A h \in Files \ gone : StageOf(h)' = StageOf(h) /\ AttemptOf(h)' = AttemptOf(h)
  BY DEF StageOf, AttemptOf
<1>3. gone \in SUBSET Files
  OBVIOUS
<1> HIDE DEF gone
<1>4. Lifecycle!Remove(gone)
  BY <1>1, <1>2, <1>3 DEF Lifecycle!Remove
<1> QED
  BY <1>3, <1>4 DEF Lifecycle!Next

LEMMA DeclareStep ==
  ASSUME IInv, Regular, NEW u, NEW b, NEW h \in Files, NEW segs, DeclareDeal(u, b, h, segs)
  PROVE  Lifecycle!Declare(h)
<1>1. PICK deal : /\ deal.stage = 1 /\ deal.count = 0
                  /\ h \notin DOMAIN agenda /\ DealMap' = InsertKey(DealMap, h, deal)
  <2>1. /\ h \notin DOMAIN agenda
        /\ \E a : DealMap' = InsertKey(DealMap, h, NewDeal(u, b, segs, a))
    BY Zenon DEF DeclareDeal, GenerateDeal
  <2>2. \A a : NewDeal(u, b, segs, a).stage = 1 /\ NewDeal(u, b, segs, a).count = 0
    BY DEF NewDeal
  <2> QED
    BY <2>1, <2>2
<1>2. h \notin DOMAIN File /\ h \notin DOMAIN DealMap /\ UNCHANGED File
  BY <1>1 DEF DeclareDeal, Regular, files
<1>3. OnlyTouches(h)
  BY <1>1, <1>2 DEF OnlyTouches, InsertKey
<1>4. StageOf(h) = "absent" /\ StageOf(h)' = "transfer" /\ AttemptOf(h)' = 1
  BY <1>1, <1>2 DEF StageOf, AttemptOf, InsertKey
<1> QED
  BY <1>3, <1>4, MoveStep DEF Lifecycle!Declare

\* The attempt of a deal whose time-out is due.
LEMMA DueAttempt ==
  ASSUME IInv, NEW h, Due(h, "deal_reassign_miner")
  PROVE  /\ StageOf(h) = "transfer" /\ AttemptOf(h) = agenda[h].count
         /\ agenda[h].count \in Nat /\ agenda[h].count <= MaxAttempts
<1>1. /\ h \in DOMAIN agenda /\ agenda[h] \in Task /\ h \in DOMAIN DealMap
      /\ IsDeal(DealMap[h]) /\ DealMap[h].stage = 1 /\ agenda[h].count = DealMap[h].count + 1
      /\ h \notin DOMAIN File
  BY DueIsTransferring
<1>2. DealMap[h].count \in Nat /\ DealMap[h].count < MaxAttempts
  BY <1>1 DEF IInv, DealInv, DealsTyped, IsDeal, DealInfo
<1> QED
  BY <1>1, <1>2, FileBankAssumption, SMTT(30) DEF StageOf, AttemptOf

LEMMA ReassignStep ==
  ASSUME IInv, NEW h \in Files, DealReassignMiner(h)
  PROVE  Lifecycle!Retry(h)
<1>1. /\ StageOf(h) = "transfer" /\ AttemptOf(h) = agenda[h].count
      /\ agenda[h].count \in Nat /\ agenda[h].count < MaxAttempts
  BY DueAttempt, FileBankAssumption DEF DealReassignMiner, LastAttempt
<1>2. PICK a : DealMap' = [DealMap EXCEPT ![h] = Redrawn(h, a)]
  BY Zenon DEF DealReassignMiner
<1>3. h \in DOMAIN DealMap /\ IsDeal(DealMap[h]) /\ DealMap[h].stage = 1 /\ h \notin DOMAIN File
  BY DueIsTransferring DEF DealReassignMiner
<1>4. Redrawn(h, a).stage = 1 /\ Redrawn(h, a).count = agenda[h].count
  BY <1>3 DEF Redrawn, IsDeal, DealInfo
<1>5. UNCHANGED File
  BY DEF DealReassignMiner, files
<1>6. OnlyTouches(h)
  BY <1>2, <1>5, Zenon DEF OnlyTouches
<1>7. StageOf(h)' = "transfer" /\ AttemptOf(h)' = agenda[h].count + 1
  BY <1>2, <1>3, <1>4, <1>5, Zenon DEF StageOf, AttemptOf
<1>8. Lifecycle!Move(h, "transfer", "transfer", AttemptOf(h) + 1)
  BY <1>1, <1>6, <1>7, MoveStep
<1> QED
  BY <1>1, <1>8, Zenon DEF Lifecycle!Retry

LEMMA AbandonStep ==
  ASSUME IInv, NEW h \in Files, AbandonDeal(h)
  PROVE  Lifecycle!Abandon(h)
<1>1. StageOf(h) = "transfer" /\ AttemptOf(h) = MaxAttempts
  BY DueAttempt, FileBankAssumption DEF AbandonDeal, LastAttempt
<1>2. h \notin DOMAIN File /\ UNCHANGED File /\ DealMap' = RemoveKey(DealMap, h)
  BY DueIsTransferring DEF AbandonDeal, files
<1>3. OnlyTouches(h)
  BY <1>2 DEF OnlyTouches, RemoveKey
<1>4. StageOf(h)' = "absent" /\ AttemptOf(h)' = 0
  BY <1>2 DEF StageOf, AttemptOf, RemoveKey
<1>5. Lifecycle!Move(h, "transfer", "absent", 0)
  BY <1>1, <1>3, <1>4, MoveStep
<1> QED
  BY <1>1, <1>5, Zenon DEF Lifecycle!Abandon

LEMMA SettleStep ==
  ASSUME IInv, NEW h \in Files, CalculateEnd(h)
  PROVE  Lifecycle!Settle(h)
<1>1. /\ h \in DOMAIN File /\ File' = [File EXCEPT ![h].stat = "Active"]
      /\ h \in DOMAIN DealMap /\ DealMap' = RemoveKey(DealMap, h)
  BY DEF CalculateEnd, CanSettle, Settled
<1>2. File[h].stat = "Calculate"
  BY <1>1 DEF IInv, FileInv, CalculatingHasDeal
<1>3. OnlyTouches(h)
  BY <1>1 DEF OnlyTouches, RemoveKey
<1>4. StageOf(h) = "tagging" /\ StageOf(h)' = "stored" /\ AttemptOf(h)' = 0
  BY <1>1, <1>2 DEF StageOf, AttemptOf, IInv, FileInv, FilesTyped
<1> QED
  BY <1>3, <1>4, MoveStep DEF Lifecycle!Settle

\* Without repeated reports only the last of the assigned miners completes a
\* deal, and the deal is in stage 1 until then.
LEMMA ReportStep ==
  ASSUME IInv, Regular, NEW m \in Miners, NEW h \in Files, TransferReport(m, h)
  PROVE  Lifecycle!Next \/ UNCHANGED lifecycle
<1> DEFINE deal == [DealMap[h] EXCEPT !.complete = @ \cup {m}]
<1>1. /\ h \in DOMAIN DealMap /\ m \in DealMap[h].assigned /\ m \notin DealMap[h].complete
  BY DEF TransferReport, Submit, Regular
<1>2. IsDeal(DealMap[h]) /\ DealMap[h].stage = 1
  <2>1. DealMap[h].stage \in {1, 2} /\ IsDeal(DealMap[h])
    BY <1>1 DEF IInv, DealInv, DealsTyped, IsDeal, DealInfo
  <2>2. DealMap[h].stage = 2 => DealMap[h].complete = DealMap[h].assigned
    BY <1>1 DEF IInv, DealInv, StageIsReported
  <2> QED
    BY <1>1, <2>1, <2>2
<1>3. h \notin DOMAIN File
  BY <1>1, <1>2 DEF IInv, FileInv, CalculatingHasDeal
<1>4. deal.stage = 1 /\ deal.count = DealMap[h].count
  BY <1>2 DEF IsDeal, DealInfo
<1>5. CASE Cardinality(deal.complete) = Cardinality(deal.assigned)
  <2>1. CompleteDeal(h, deal)
    BY <1>5 DEF TransferReport
  <2> DEFINE file == GenerateFile(deal)
             done == Completed(deal)
  <2>2. file.stat = "Calculate"
    BY DEF GenerateFile
  <2>3. File' = InsertKey(File, h, file) /\ DealMap' = [DealMap EXCEPT ![h] = done]
    BY <2>1 DEF CompleteDeal
  <2> HIDE DEF file, done, deal
  <2>4. OnlyTouches(h)
    BY <2>3 DEF OnlyTouches, InsertKey
  <2>5. StageOf(h) = "transfer" /\ StageOf(h)' = "tagging" /\ AttemptOf(h)' = 0
    BY <1>1, <1>2, <1>3, <2>2, <2>3 DEF StageOf, AttemptOf, InsertKey
  <2>6. Lifecycle!Complete(h)
    BY <2>4, <2>5, MoveStep DEF Lifecycle!Complete
  <2> QED
    BY <2>6 DEF Lifecycle!Next
<1>6. CASE Cardinality(deal.complete) # Cardinality(deal.assigned)
  <2>1. DealMap' = [DealMap EXCEPT ![h] = deal] /\ UNCHANGED File
    BY <1>6 DEF TransferReport, files
  <2> HIDE DEF deal
  <2>2. \A g \in Files : StageOf(g)' = StageOf(g)
    BY <1>1, <1>2, <1>3, <1>4, <2>1, Zenon DEF StageOf
  <2>3. \A g \in Files : AttemptOf(g)' = AttemptOf(g)
    BY <1>1, <1>2, <1>3, <1>4, <2>1, <2>2 DEF AttemptOf
  <2> QED
    BY <2>2, <2>3 DEF lifecycle
<1> QED
  BY <1>5, <1>6

-----------------------------------------------------------------------------
\* Calls of users, miners, leases and blocks take files away at most.
LEMMA OtherStep ==
  ASSUME IInv, UserNext \/ LeaseNext \/ MinerNext \/ NextBlock \/ SchedulerDone
  PROVE  Lifecycle!Next
<1>0. FilesTyped
  BY DEF IInv, FileInv
<1> DEFINE Removing == /\ UNCHANGED DealMap
                       /\ DOMAIN File' \subseteq DOMAIN File
                       /\ \A h \in DOMAIN File' : File'[h].stat = File[h].stat
<1>1. ASSUME NEW books, WriteBooks(books), UNCHANGED DealMap PROVE Removing
  BY <1>0, <1>1, WrittenBooks DEF OnlyOwnersChange
<1>2. ASSUME NEW h, NEW e, File' = [File EXCEPT ![h].owner = e], UNCHANGED DealMap PROVE Removing
  BY <1>0, <1>2 DEF FilesTyped
<1>3. UNCHANGED <<File, DealMap>> => Removing
  OBVIOUS
<1> HIDE DEF Removing
<1>4. CASE UserNext
  <2>1. ASSUME NEW u, NEW b, NEW h, NEW segs, DeclareHeld(u, b, h, segs) PROVE Removing
    BY <2>1, <1>2, Zenon DEF DeclareHeld
  <2>2. ASSUME NEW u, NEW b, CreateBucket(u, b) PROVE Removing
    BY <2>2, <1>3 DEF CreateBucket
  <2>3. ASSUME NEW u, NEW b, DeleteBucket(u, b) PROVE Removing
    BY <2>3, <1>1, Zenon DEF DeleteBucket
  <2>4. ASSUME NEW u, NEW t, NEW tb, NEW h, OwnershipTransfer(u, t, tb, h) PROVE Removing
    BY <2>4, <1>1, Zenon DEF OwnershipTransfer
  <2>5. ASSUME NEW u, NEW h, DeleteFile(u, h) PROVE Removing
    BY <2>5, <1>1 DEF DeleteFile
  <2>6. Removing
    BY <1>4, <2>1, <2>2, <2>3, <2>4, <2>5 DEF UserNext
  <2> QED
    BY <2>6, RemovalStep DEF Removing
<1>5. CASE LeaseNext
  <2>1. \/ \E books : WriteBooks(books) /\ UNCHANGED DealMap
        \/ UNCHANGED <<File, DealMap>>
    BY <1>5 DEF LeaseNext, OnInitialize, BuySpace, ExpansionSpace, RenewalSpace, files
  <2> QED
    BY <2>1, <1>1, <1>3, RemovalStep, SMTT(30) DEF Removing
<1>6. CASE MinerNext
  <2>1. PICK m \in Miners :
          \/ Regnstk(m) \/ UploadFiller(m) \/ DeleteFiller(m) \/ ReplaceFileReport(m)
          \/ MinerExitPrep(m) \/ MinerExit(m) \/ MinerExitFails(m) \/ ForceMinerExit(m)
          \/ MinerWithdraw(m)
          \/ \E h \in Files, f \in AnyFrag :
               \/ GenerateRestoralOrder(m, h, f) \/ ClaimRestoralOrder(m, h, f)
               \/ RestoralOrderComplete(m, h, f)
               \/ \E gone \in Miners : ClaimRestoralNoexistOrder(m, gone, h, f)
    BY <1>6, Zenon DEF MinerNext
  <2>2. ASSUME NEW h, NEW f, NEW order, OpenOrder(h, f, order) PROVE Removing
    BY <2>2, <1>0 DEF OpenOrder, FilesTyped, Removing
  <2>3. ASSUME NEW h, NEW f, RestoralOrderComplete(m, h, f) PROVE Removing
    <3>1. /\ UNCHANGED DealMap
          /\ \/ UNCHANGED File
             \/ File' = [File EXCEPT ![h].frag[f] = [miner |-> m, avail |-> TRUE]]
      BY <2>3 DEF RestoralOrderComplete, MoveFragment
    <3> QED
      BY <3>1, <1>0 DEF FilesTyped, Removing
  <2>4. ASSUME Regnstk(m) \/ UploadFiller(m) \/ DeleteFiller(m) \/ ReplaceFileReport(m)
        PROVE  Removing
    <3>1. UNCHANGED <<File, DealMap>>
      BY <2>4, Zenon DEF Regnstk, UploadFiller, DeleteFiller, ReplaceFileReport, files
    <3> QED
      BY <3>1, <1>3, Zenon
  <2>5. ASSUME \/ MinerExitPrep(m) \/ MinerExit(m) \/ MinerExitFails(m) \/ ForceMinerExit(m)
               \/ MinerWithdraw(m)
        PROVE  Removing
    <3>1. UNCHANGED <<File, DealMap>>
      BY <2>5 DEF MinerExitPrep, MinerExit, MinerExitFails, ForceMinerExit, MinerWithdraw, files
    <3> QED
      BY <3>1, <1>3
  <2>6. ASSUME NEW h, NEW f, ClaimRestoralOrder(m, h, f) PROVE Removing
    BY <2>6, <1>3 DEF ClaimRestoralOrder, files
  <2>7. ASSUME NEW h, NEW f, NEW gone,
               GenerateRestoralOrder(m, h, f) \/ ClaimRestoralNoexistOrder(m, gone, h, f)
        PROVE  Removing
    BY <2>7, <2>2 DEF GenerateRestoralOrder, ClaimRestoralNoexistOrder
  <2>8. Removing
    BY <2>1, <2>3, <2>4, <2>5, <2>6, <2>7, SMTT(30)
  <2> QED
    BY <2>8, RemovalStep, Zenon DEF Removing
<1>7. CASE NextBlock \/ SchedulerDone
  BY <1>7, <1>3, RemovalStep DEF NextBlock, SchedulerDone, files, Removing
<1> QED
  BY <1>4, <1>5, <1>6, <1>7

LEMMA DealStep ==
  ASSUME IInv, Regular, DealNext
  PROVE  Lifecycle!Next \/ UNCHANGED lifecycle
<1>1. ASSUME NEW h, ReassignFails(h) \/ CalculateFails(h) PROVE Lifecycle!Next
  <2>1. UNCHANGED <<DealMap, File>>
    BY <1>1 DEF ReassignFails, CalculateFails, files
  <2> QED
    BY <2>1, RemovalStep
<1>2. ASSUME NEW h \in Files,
             DealReassignMiner(h) \/ AbandonDeal(h) \/ CalculateEnd(h)
      PROVE  Lifecycle!Next
  BY <1>2, ReassignStep, AbandonStep, SettleStep DEF Lifecycle!Next
<1>3. ASSUME NEW u, NEW b, NEW h \in Files, NEW segs, DeclareDeal(u, b, h, segs)
      PROVE  Lifecycle!Next
  BY <1>3, DeclareStep DEF Lifecycle!Next
<1> QED
  BY <1>1, <1>2, <1>3, ReportStep DEF DealNext

\* Deals, reports, time-outs, failures and deletions implement the life of a
\* file: it is transferred in at most MaxAttempts attempts, tagged only when
\* transferred and stored only when tagged, and given up only after the last
\* attempt (upload_declaration, transfer_report, deal_reassign_miner,
\* calculate_end, and every call that removes files).
THEOREM RefinesLifecycle ==
  ASSUME Regular
  PROVE  Spec => ImplementsLifecycle
<1>1. Init => Lifecycle!Init
  BY DEF Init, Lifecycle!Init, StageOf, AttemptOf, EmptyMap
<1>2. IInv /\ [Next]_vars => [Lifecycle!Next]_lifecycle
  <2>1. ASSUME IInv, Next PROVE Lifecycle!Next \/ UNCHANGED lifecycle
    BY <2>1, DealStep, OtherStep DEF Next
  <2>2. ASSUME IInv, UNCHANGED vars PROVE Lifecycle!Next
    BY <2>2, RemovalStep DEF vars, files
  <2> QED
    BY <2>1, <2>2
<1>3. [][Lifecycle!Next]_lifecycle /\ Lifecycle!Init => ImplementsLifecycle
  BY PTL DEF ImplementsLifecycle, Lifecycle!Spec, lifecycle
<1> QED
  BY <1>1, <1>2, <1>3, Invariance, PTL DEF Spec
=============================================================================
