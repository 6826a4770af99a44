--------------------------- MODULE FileBankProofs ---------------------------
(***************************************************************************)
(* What holds of the deals of pallet file-bank for every set of users,     *)
(* miners, files and buckets, every set of calls, every rate and deadline. *)
(***************************************************************************)
EXTENDS FileBank, TLAPS, FiniteSetTheorems, WellFoundedInduction

LEMMA QuotientNat ==
  ASSUME NEW a \in Nat, NEW b \in Nat \ {0}
  PROVE  a \div b \in Nat
  OBVIOUS

LEMMA ProductNat ==
  ASSUME NEW a \in Nat, NEW b \in Nat
  PROVE  a * b \in Nat
  OBVIOUS

\* A bounded set of naturals that is not empty has a maximum.
LEMMA MaxOfBounded ==
  ASSUME NEW S \in SUBSET Nat, S # {}, NEW n \in Nat, \A x \in S : x <= n
  PROVE  Max(S) \in S
<1> DEFINE Bounds == {b \in Nat : \A x \in S : x <= b}
<1>1. PICK b \in Bounds : \A c \in Bounds : ~ (<<c, b>> \in OpToRel(<, Nat))
  <2>1. Bounds \subseteq Nat /\ Bounds # {}
    OBVIOUS
  <2> HIDE DEF Bounds
  <2> QED
    BY <2>1, NatLessThanWellFounded, WFMin, Zenon
<1>2. \A c \in Bounds : ~ (c < b)
  BY <1>1, Zenon DEF OpToRel
<1>3. b \in S
  <2>1. SUFFICES ASSUME b \notin S PROVE FALSE
    OBVIOUS
  <2>2. \A x \in S : x < b
    BY <2>1
  <2>3. PICK x \in S : x \in Nat /\ x < b
    BY <2>2, Zenon
  <2>4. b - 1 \in Nat /\ \A y \in S : y <= b - 1
    BY <2>2, <2>3
  <2> QED
    BY <2>4, <1>2
<1> QED
  BY <1>3, Zenon DEF Max

-----------------------------------------------------------------------------
\* The outcome of a draw: it names miners of the list it was drawn from, at
\* least one, and places every fragment on one of them.
LEMMA AssignmentShape ==
  ASSUME NEW items, NEW all, NEW segs, NEW a \in Assignments(items, all, segs)
  PROVE  /\ a.assigned \subseteq all
         /\ a.assigned # {}
         /\ a.place \in [Frags(segs) -> a.assigned]
<1>1. PICK d \in Draws(items, all, segs) :
        /\ EnoughIdle(items, d)
        /\ \E place \in Placements(items, d, segs) :
             a = [assigned |-> Drawn(d), place |-> place]
  BY DEF Assignments
<1>2. a.assigned = Drawn(d) /\ a.place \in [Frags(segs) -> Drawn(d)]
  BY <1>1 DEF Placements
<1>3. PICK k \in DrawCounts(items, all, segs) : d \in [1..k -> Qualified(items, all, segs)]
  BY DEF Draws
<1>4. k \in Nat
  BY AssignmentAssumption DEF DrawCounts
<1>5. Qualified(items, all, segs) \subseteq all
  BY DEF Qualified
<1>6. d \in Seq(all) /\ Len(d) = k
  BY <1>3, <1>4, <1>5
<1>7. k # 0
  BY <1>1, <1>6 DEF EnoughIdle
<1> QED
  BY <1>2, <1>3, <1>4, <1>5, <1>6, <1>7 DEF Drawn

\* The numbers of fragments per miner are naturals, and one of them is largest.
LEMMA TaskCountType ==
  ASSUME NEW deal, deal.segs \in Nat, Miners # {}
  PROVE  Max({TaskCount(deal)[m] : m \in Miners}) \in Nat
<1> DEFINE On(m) == {f \in Frags(deal.segs) : deal.place[f] = m}
<1>1. IsFiniteSet(Frags(deal.segs)) /\ Cardinality(Frags(deal.segs)) \in Nat
  <2>1. IsFiniteSet(1..deal.segs) /\ IsFiniteSet(1..FragmentCount)
    BY AssignmentAssumption, FS_Interval
  <2>2. IsFiniteSet(Frags(deal.segs))
    BY <2>1, FS_Product, Zenon DEF Frags
  <2> QED
    BY <2>2, FS_CardinalityType
<1>2. \A m : IsFiniteSet(On(m)) /\ Cardinality(On(m)) <= Cardinality(Frags(deal.segs))
  <2> TAKE m
  <2>1. On(m) \in SUBSET Frags(deal.segs)
    OBVIOUS
  <2> QED
    BY <2>1, <1>1, FS_Subset
<1>3. \A m : Cardinality(On(m)) \in Nat
  BY <1>2, FS_CardinalityType, Zenon
<1>4. \A m \in Miners : TaskCount(deal)[m] = Cardinality(On(m))
  BY DEF TaskCount
<1> DEFINE Counts == {TaskCount(deal)[m] : m \in Miners}
           all == Cardinality(Frags(deal.segs))
<1>5. \A m \in Miners : TaskCount(deal)[m] \in Nat /\ TaskCount(deal)[m] <= all
  BY <1>2, <1>3, <1>4, Zenon
<1>6. Counts \in SUBSET Nat /\ Counts # {} /\ \A x \in Counts : x <= all
  <2> HIDE DEF all
  <2> QED
    BY <1>5
<1> HIDE DEF Counts
<1>7. Max(Counts) \in Counts
  BY <1>1, <1>6, MaxOfBounded, Zenon
<1> QED
  BY <1>6, <1>7 DEF Counts

\* The time-outs are scheduled for a later block.
LEMMA FirstTaskLater ==
  ASSUME now \in Nat, NEW count \in Nat, NEW segs \in Nat
  PROVE  FirstTask(count, segs) \in Task /\ FirstTask(count, segs).at > now
<1>1. RetryStep \in Nat /\ FragmentSize \in Nat /\ FragmentCount \in Nat /\ TransferRate \in Nat \ {0}
  BY FileBankAssumption, AssignmentAssumption
<1>2. RetryStep * count \in Nat /\ CalFileSize(segs) * FragmentSize \in Nat
  BY <1>1, ProductNat DEF CalFileSize
<1>3. (CalFileSize(segs) * FragmentSize) \div TransferRate \in Nat
  BY <1>1, <1>2, QuotientNat
<1>4. TransferLife(segs) \in Nat /\ TransferLife(segs) > 0
  BY <1>3 DEF TransferLife
<1> QED
  BY <1>2, <1>4 DEF FirstTask, Task

LEMMA SecondTaskLater ==
  ASSUME now \in Nat, NEW deal, deal.segs \in Nat, Miners # {}
  PROVE  SecondTask(deal) \in Task /\ SecondTask(deal).at > now
<1> DEFINE most == Max({TaskCount(deal)[m] : m \in Miners}) * FragmentSize
<1>1. FragmentSize \in Nat /\ TransferRate \in Nat \ {0} /\ CalculateRate \in Nat \ {0}
  BY FileBankAssumption
<1>2. most \in Nat
  BY <1>1, TaskCountType, ProductNat
<1>3. SecondTask(deal) =
        [at |-> now + (most \div TransferRate) + 1 + (most \div CalculateRate) + 1,
         call |-> "calculate_end", count |-> 0]
  BY DEF SecondTask
<1> HIDE DEF most
<1>4. most \div TransferRate \in Nat /\ most \div CalculateRate \in Nat
  BY <1>1, <1>2, QuotientNat
<1> QED
  BY <1>3, <1>4 DEF Task

-----------------------------------------------------------------------------
(* The inductive invariant *)

ChainTyped == now \in Nat /\ phase \in Phase /\ AllMiner \subseteq Miners

\* A scheduled call lies ahead, and strictly so once the scheduler is done with
\* the block: this is what the order of a block adds to AgendaMatchesDeals.
AgendaAhead ==
  \A h \in DOMAIN agenda :
    /\ agenda[h] \in Task
    /\ now <= agenda[h].at
    /\ phase # "scheduler" => now < agenda[h].at

DealsTyped == \A h \in DOMAIN DealMap : IsDeal(DealMap[h]) /\ DealMap[h].count < MaxAttempts

\* A file and an order are records; of what they hold only the state matters.
FilesTyped ==
  \A h \in DOMAIN File :
    /\ DOMAIN File[h] = {"segs", "frag", "owner", "stat"}
    /\ File[h].stat \in {"Active", "Calculate"}
    /\ \A f \in DOMAIN File[h].frag : DOMAIN File[h].frag[f] = {"miner", "avail"}

OrdersTyped ==
  \A k \in DOMAIN RestoralOrder :
    DOMAIN RestoralOrder[k] = {"miner", "origin_miner", "deadline"}

AgendaInv == AgendaAhead /\ AgendaMatchesDeals

DealInv == DealsTyped /\ StageIsReported

FileInv == FilesTyped /\ CalculatingHasDeal

OrderInv == OrdersTyped /\ LostHasOrder

IInv == ChainTyped /\ AgendaInv /\ DealInv /\ FileInv /\ OrderInv

LEMMA InitInv == Init => IInv
<1> SUFFICES ASSUME Init PROVE IInv
  OBVIOUS
<1>1. DOMAIN agenda = {} /\ DOMAIN DealMap = {} /\ DOMAIN File = {} /\ DOMAIN RestoralOrder = {}
  BY DEF Init, EmptyMap
<1> QED
  BY <1>1 DEF Init, IInv, ChainTyped, Phase, AgendaInv, AgendaAhead, AgendaMatchesDeals,
     DealInv, DealsTyped, StageIsReported, FileInv, FilesTyped, CalculatingHasDeal,
     OrderInv, OrdersTyped, LostHasOrder

\* What the invariant speaks of, but for the chain and the files.
kept == <<agenda, DealMap, RestoralOrder>>

\* Files are removed or change their owners, and nothing else about them.
OnlyOwnersChange ==
  /\ DOMAIN File' \subseteq DOMAIN File
  /\ \A h \in DOMAIN File' :
       /\ DOMAIN File'[h] = DOMAIN File[h]
       /\ File'[h].stat = File[h].stat
       /\ File'[h].frag = File[h].frag

\* The block moves on only as far as the agenda allows.
ChainStep ==
  \/ UNCHANGED chain
  \/ phase = "hook" /\ phase' = "extrinsics" /\ now' = now

\* The calls of users and hooks that only remove files or change their owners.
LEMMA OwnerStep ==
  ASSUME IInv, OnlyOwnersChange, ChainStep, UNCHANGED kept, AllMiner' \subseteq Miners
  PROVE  IInv'
<1>1. ChainTyped' /\ AgendaInv'
  BY DEF IInv, ChainTyped, Phase, ChainStep, chain, kept, AgendaInv, AgendaAhead,
         AgendaMatchesDeals
<1>2. DealInv'
  BY DEF IInv, kept, DealInv, DealsTyped, StageIsReported
<1>3. FileInv'
  BY DEF IInv, kept, OnlyOwnersChange, FileInv, FilesTyped, CalculatingHasDeal
<1>4. OrderInv'
  BY DEF IInv, kept, OnlyOwnersChange, OrderInv, OrdersTyped, LostHasOrder
<1> QED
  BY <1>1, <1>2, <1>3, <1>4 DEF IInv

LEMMA QuietStep ==
  ASSUME IInv, UNCHANGED <<chain, kept, File>>, AllMiner' \subseteq Miners
  PROVE  IInv'
<1>1. OnlyOwnersChange /\ ChainStep /\ UNCHANGED kept
  BY DEF OnlyOwnersChange, ChainStep
<1> QED
  BY <1>1, OwnerStep

LEMMA WrittenBooks ==
  ASSUME FilesTyped, NEW books, WriteBooks(books)
  PROVE  OnlyOwnersChange
  BY DEF FilesTyped, WriteBooks, OnlyOwnersChange

-----------------------------------------------------------------------------
(* Deals *)

\* The files and the orders do not notice a step on a deal that has no file and
\* gets none.
LEMMA DealWithoutFile ==
  ASSUME IInv, NEW h, h \notin DOMAIN File, UNCHANGED <<File, RestoralOrder>>,
         \A g : g # h => /\ g \in DOMAIN DealMap' <=> g \in DOMAIN DealMap
                         /\ g \in DOMAIN DealMap => DealMap'[g] = DealMap[g]
  PROVE  FileInv' /\ OrderInv'
<1>1. FileInv'
  BY DEF IInv, FileInv, FilesTyped, CalculatingHasDeal
<1>2. OrderInv'
  BY DEF IInv, OrderInv, OrdersTyped, LostHasOrder
<1> QED
  BY <1>1, <1>2

LEMMA NewDealIsDeal ==
  ASSUME NEW u \in Users, NEW b \in Buckets, NEW segs \in Nat, NEW a,
         a.assigned \subseteq Miners, a.place \in [Frags(segs) -> Miners]
  PROVE  LET deal == NewDeal(u, b, segs, a)
         IN  /\ IsDeal(deal) /\ deal.stage = 1 /\ deal.count = 0
             /\ deal.complete = {} /\ deal.assigned = a.assigned
  BY DEF NewDeal, IsDeal, DealInfo

\* A call is scheduled for deal h, in place of an earlier one or as the first.
LEMMA Scheduled ==
  ASSUME AgendaInv, now \in Nat, UNCHANGED <<now, phase>>,
         NEW h, NEW task \in Task, task.at > now,
         NEW deal, IF task.call = "calculate_end" THEN deal.stage = 2
                   ELSE deal.stage = 1 /\ task.count = deal.count + 1,
         DOMAIN agenda' = DOMAIN agenda \cup {h}, agenda'[h] = task,
         \A g \in DOMAIN agenda : g # h => agenda'[g] = agenda[g],
         h \in DOMAIN DealMap', DealMap'[h] = deal,
         \A g \in DOMAIN DealMap : g # h => g \in DOMAIN DealMap' /\ DealMap'[g] = DealMap[g]
  PROVE  AgendaInv'
<1>1. task.at \in Nat /\ now <= task.at
  BY DEF Task
<1>2. AgendaAhead'
  BY <1>1 DEF AgendaInv, AgendaAhead
<1>3. AgendaMatchesDeals'
  BY <1>1 DEF AgendaInv, AgendaMatchesDeals
<1> QED
  BY <1>2, <1>3 DEF AgendaInv

\* Deal h is written, whole.
LEMMA DealWritten ==
  ASSUME DealInv, NEW h, NEW deal, IsDeal(deal), deal.count < MaxAttempts,
         deal.complete \subseteq deal.assigned,
         deal.stage = 2 <=> deal.complete = deal.assigned,
         DOMAIN DealMap' = DOMAIN DealMap \cup {h}, DealMap'[h] = deal,
         \A g \in DOMAIN DealMap : g # h => DealMap'[g] = DealMap[g]
  PROVE  DealInv'
  BY DEF DealInv, DealsTyped, StageIsReported

LEMMA DeclareDealInv ==
  ASSUME IInv, NEW u \in Users, NEW b \in Buckets, NEW h \in Files, NEW segs \in SegmentCounts,
         DeclareDeal(u, b, h, segs)
  PROVE  IInv'
<1>1. segs \in Nat /\ now \in Nat
  BY FileBankAssumption DEF IInv, ChainTyped
<1>2. PICK a \in Assignments(MinerItems, AllMiner, segs) :
        /\ agenda' = InsertKey(agenda, h, FirstTask(1, segs))
        /\ DealMap' = InsertKey(DealMap, h, NewDeal(u, b, segs, a))
  BY Zenon DEF DeclareDeal, GenerateDeal
<1>3. h \notin DOMAIN File /\ UNCHANGED <<now, phase, AllMiner, File, RestoralOrder>>
  BY DEF DeclareDeal, Submit, chain, files, restoral
<1> DEFINE deal == NewDeal(u, b, segs, a)
           task == FirstTask(1, segs)
<1>4. task \in Task /\ task.at > now
  BY <1>1, FirstTaskLater
<1>5. task.call = "deal_reassign_miner" /\ task.count = 1
  BY DEF FirstTask
<1>6. a.assigned \subseteq Miners /\ a.assigned # {} /\ a.place \in [Frags(segs) -> Miners]
  BY AssignmentShape DEF IInv, ChainTyped
<1>7. /\ IsDeal(deal) /\ deal.stage = 1 /\ deal.count = 0
      /\ deal.complete = {} /\ deal.assigned = a.assigned
  BY <1>1, <1>6, NewDealIsDeal
<1> HIDE DEF deal, task
<1>8. /\ DOMAIN agenda' = DOMAIN agenda \cup {h} /\ agenda'[h] = task
      /\ \A g \in DOMAIN agenda : g # h => agenda'[g] = agenda[g]
  BY <1>2 DEF InsertKey, task
<1>9. /\ DOMAIN DealMap' = DOMAIN DealMap \cup {h} /\ DealMap'[h] = deal
      /\ \A g \in DOMAIN DealMap : g # h => DealMap'[g] = DealMap[g]
  BY <1>2 DEF InsertKey, deal
<1>10. ChainTyped'
  BY <1>3, ZenonT(30) DEF IInv, ChainTyped
<1>11. AgendaInv'
  BY <1>1, <1>3, <1>4, <1>5, <1>7, <1>8, <1>9, Scheduled DEF IInv
<1>12. DealInv'
  <2>1. deal.count < MaxAttempts
    BY <1>7, FileBankAssumption
  <2>2. /\ deal.complete \subseteq deal.assigned
        /\ deal.stage = 2 <=> deal.complete = deal.assigned
    BY <1>6, <1>7
  <2> QED
    BY <1>7, <1>9, <2>1, <2>2, DealWritten, ZenonT(30) DEF IInv
<1>13. FileInv' /\ OrderInv'
  BY <1>3, <1>9, DealWithoutFile
<1> QED
  BY <1>10, <1>11, <1>12, <1>13 DEF IInv

\* The deal whose time-out is due is in stage 1, so that it has no file.
LEMMA DueIsTransferring ==
  ASSUME IInv, NEW h, Due(h, "deal_reassign_miner")
  PROVE  /\ phase = "scheduler" /\ h \in DOMAIN agenda /\ agenda[h] \in Task
         /\ h \in DOMAIN DealMap /\ IsDeal(DealMap[h])
         /\ DealMap[h].stage = 1 /\ agenda[h].count = DealMap[h].count + 1
         /\ h \notin DOMAIN File
<1>1. /\ phase = "scheduler" /\ h \in DOMAIN agenda /\ agenda[h] \in Task
      /\ h \in DOMAIN DealMap /\ DealMap[h].stage = 1
      /\ agenda[h].count = DealMap[h].count + 1
  BY DEF IInv, Due, AgendaInv, AgendaAhead, AgendaMatchesDeals
<1>2. IsDeal(DealMap[h])
  BY <1>1 DEF IInv, DealInv, DealsTyped
<1>3. h \notin DOMAIN File
  BY <1>1 DEF IInv, FileInv, CalculatingHasDeal
<1> QED
  BY <1>1, <1>2, <1>3

LEMMA ReassignInv ==
  ASSUME IInv, NEW h \in Files, DealReassignMiner(h)
  PROVE  IInv'
<1>1. /\ phase = "scheduler" /\ h \in DOMAIN agenda /\ agenda[h] \in Task
      /\ h \in DOMAIN DealMap /\ IsDeal(DealMap[h])
      /\ DealMap[h].stage = 1 /\ agenda[h].count = DealMap[h].count + 1
      /\ h \notin DOMAIN File
  BY DueIsTransferring DEF DealReassignMiner
<1>2. PICK a \in Assignments(Unlocked(h), AllMiner, DealMap[h].segs) :
        /\ DealMap' = [DealMap EXCEPT ![h] = Redrawn(h, a)]
        /\ agenda' = RestartFirstTask(h, Redrawn(h, a).segs)
  BY Zenon DEF DealReassignMiner
<1>3. UNCHANGED <<now, phase, AllMiner, File, RestoralOrder>>
  BY ZenonT(30) DEF DealReassignMiner, chain, files, restoral
<1>4. agenda[h].count \in Nat /\ agenda[h].count < MaxAttempts
  <2>1. ~ LastAttempt(h)
    BY Zenon DEF DealReassignMiner
  <2> QED
    BY <1>1, <2>1, FileBankAssumption, SMTT(30) DEF LastAttempt, Task
<1>5. /\ a.assigned \subseteq Miners /\ a.assigned # {}
      /\ a.place \in [Frags(DealMap[h].segs) -> Miners]
  BY AssignmentShape DEF IInv, ChainTyped
<1>6. /\ Redrawn(h, a).segs = DealMap[h].segs
      /\ Redrawn(h, a).stage = 1 /\ Redrawn(h, a).count = agenda[h].count
      /\ Redrawn(h, a).complete = {} /\ Redrawn(h, a).assigned = a.assigned
      /\ IsDeal(Redrawn(h, a))
  BY <1>1, <1>4, <1>5, Zenon DEF Redrawn, IsDeal, DealInfo
<1> DEFINE deal == Redrawn(h, a)
           task == FirstTask(agenda[h].count + 1, DealMap[h].segs)
<1>7. task \in Task /\ task.at > now /\ task.call = "deal_reassign_miner"
      /\ task.count = agenda[h].count + 1
  <2>1. DealMap[h].segs \in Nat /\ agenda[h].count + 1 \in Nat
    BY <1>1, <1>4 DEF IsDeal
  <2>2. task \in Task /\ task.at > now
    BY <2>1, FirstTaskLater DEF IInv, ChainTyped
  <2> QED
    BY <2>2, Zenon DEF FirstTask
<1>8. /\ DOMAIN agenda' = DOMAIN agenda \cup {h} /\ agenda'[h] = task
      /\ \A g \in DOMAIN agenda : g # h => agenda'[g] = agenda[g]
  <2>1. agenda' = [agenda EXCEPT ![h] = task]
    BY <1>2, <1>6 DEF RestartFirstTask
  <2> HIDE DEF task
  <2> QED
    BY <1>1, <2>1
<1> HIDE DEF deal, task
<1>9. /\ DOMAIN DealMap' = DOMAIN DealMap \cup {h} /\ DealMap'[h] = deal
      /\ \A g \in DOMAIN DealMap : g # h => DealMap'[g] = DealMap[g]
  <2>1. DealMap' = [DealMap EXCEPT ![h] = deal]
    BY <1>2, Zenon DEF deal
  <2> QED
    BY <1>1, <2>1, Zenon
<1>10. ChainTyped'
  BY <1>3 DEF IInv, ChainTyped
<1>11. AgendaInv'
  <2>1. now \in Nat /\ AgendaInv
    BY DEF IInv, ChainTyped
  <2>2. deal.stage = 1 /\ task.count = deal.count + 1 /\ task.call # "calculate_end"
    BY <1>6, <1>7, Zenon DEF deal
  <2> QED
    BY <1>3, <1>7, <1>8, <1>9, <2>1, <2>2, Scheduled
<1>12. DealInv'
  <2>1. /\ IsDeal(deal) /\ deal.count < MaxAttempts /\ deal.complete \subseteq deal.assigned
        /\ deal.stage = 2 <=> deal.complete = deal.assigned
    BY <1>4, <1>5, <1>6, SMTT(30) DEF deal
  <2> QED
    BY <1>9, <2>1, DealWritten, ZenonT(30) DEF IInv
<1>13. FileInv' /\ OrderInv'
  BY <1>1, <1>3, <1>9, DealWithoutFile
<1> QED
  BY <1>10, <1>11, <1>12, <1>13, SMTT(30) DEF IInv

LEMMA AbandonInv ==
  ASSUME IInv, NEW h \in Files, AbandonDeal(h)
  PROVE  IInv'
<1>1. h \notin DOMAIN File
  BY DueIsTransferring, Zenon DEF AbandonDeal
<1>2. /\ DealMap' = RemoveKey(DealMap, h) /\ agenda' = RemoveKey(agenda, h)
      /\ UNCHANGED <<now, phase, AllMiner, File, RestoralOrder>>
  BY SMTT(30) DEF AbandonDeal, chain, files, restoral
<1>3. ChainTyped' /\ AgendaInv'
  BY <1>2, SMTT(30) DEF IInv, ChainTyped, AgendaInv, AgendaAhead, AgendaMatchesDeals, RemoveKey
<1>4. DealInv'
  BY <1>2, ZenonT(30) DEF IInv, DealInv, DealsTyped, StageIsReported, RemoveKey
<1>5. FileInv' /\ OrderInv'
  BY <1>1, <1>2, DealWithoutFile DEF RemoveKey
<1> QED
  BY <1>3, <1>4, <1>5, SMTT(30) DEF IInv

\* A scheduled call that fails only leaves the agenda.
LEMMA FailedCallInv ==
  ASSUME IInv, NEW h \in Files, ReassignFails(h) \/ CalculateFails(h)
  PROVE  IInv'
<1>1. /\ agenda' = RemoveKey(agenda, h)
      /\ UNCHANGED <<now, phase, AllMiner, DealMap, File, RestoralOrder>>
  BY DEF ReassignFails, CalculateFails, chain, files, restoral, miners
<1>2. ChainTyped' /\ AgendaInv'
  BY <1>1 DEF IInv, ChainTyped, AgendaInv, AgendaAhead, AgendaMatchesDeals, RemoveKey
<1>3. DealInv'
  BY <1>1 DEF IInv, DealInv, DealsTyped, StageIsReported
<1>4. FileInv' /\ OrderInv'
  BY <1>1 DEF IInv, FileInv, FilesTyped, CalculatingHasDeal, OrderInv, OrdersTyped, LostHasOrder
<1> QED
  BY <1>2, <1>3, <1>4 DEF IInv

\* A report by a miner who is not the last one.
LEMMA ReportInv ==
  ASSUME IInv, NEW m \in Miners, NEW h \in Files, h \in DOMAIN DealMap,
         m \in DealMap[h].assigned,
         NEW deal, deal = [DealMap[h] EXCEPT !.complete = @ \cup {m}],
         Cardinality(deal.complete) # Cardinality(deal.assigned),
         DealMap' = [DealMap EXCEPT ![h] = deal],
         UNCHANGED <<chain, agenda, File, RestoralOrder, AllMiner>>
  PROVE  IInv'
<1>1. IsDeal(DealMap[h]) /\ DealMap[h].count < MaxAttempts
  BY DEF IInv, DealInv, DealsTyped
<1>2. /\ DealMap[h].complete \subseteq DealMap[h].assigned
      /\ DealMap[h].stage = 2 <=> DealMap[h].complete = DealMap[h].assigned
  BY DEF IInv, DealInv, StageIsReported
<1>3. /\ IsDeal(deal) /\ deal.count = DealMap[h].count /\ deal.stage = DealMap[h].stage
      /\ deal.complete = DealMap[h].complete \cup {m} /\ deal.assigned = DealMap[h].assigned
  BY <1>1 DEF IsDeal, DealInfo
<1>4. deal.complete # deal.assigned /\ deal.stage # 2
  BY <1>2, <1>3
<1>5. ChainTyped' /\ AgendaInv'
  BY <1>3 DEF IInv, ChainTyped, chain, AgendaInv, AgendaAhead, AgendaMatchesDeals
<1>6. DealInv'
  BY <1>1, <1>2, <1>3, <1>4 DEF IInv, DealInv, DealsTyped, StageIsReported
<1>7. FileInv'
  BY <1>3 DEF IInv, FileInv, FilesTyped, CalculatingHasDeal
<1>8. OrderInv'
  BY DEF IInv, OrderInv, OrdersTyped, LostHasOrder
<1> QED
  BY <1>5, <1>6, <1>7, <1>8 DEF IInv

\* A report that finds every assigned miner in complete_list; this is the last
\* miner's, or a repeated one.
LEMMA CompleteInv ==
  ASSUME IInv, NEW m \in Miners, NEW h \in Files, h \in DOMAIN DealMap,
         m \in DealMap[h].assigned, phase = "extrinsics",
         NEW deal, deal = [DealMap[h] EXCEPT !.complete = @ \cup {m}],
         Cardinality(deal.complete) = Cardinality(deal.assigned),
         CompleteDeal(h, deal)
  PROVE  IInv'
<1>1. IsDeal(DealMap[h]) /\ DealMap[h].count < MaxAttempts
  BY DEF IInv, DealInv, DealsTyped
<1>2. DealMap[h].complete \subseteq DealMap[h].assigned
  BY DEF IInv, DealInv, StageIsReported
<1>3. /\ IsDeal(deal) /\ deal.count = DealMap[h].count
      /\ deal.complete = DealMap[h].complete \cup {m} /\ deal.assigned = DealMap[h].assigned
  BY <1>1 DEF IsDeal, DealInfo
<1>4. deal.complete = deal.assigned
  <2>1. deal.assigned \in SUBSET Miners /\ deal.complete \in SUBSET deal.assigned
    BY <1>2, <1>3 DEF IsDeal, DealInfo
  <2>2. IsFiniteSet(deal.assigned)
    BY <2>1, FileBankAssumption, FS_Subset
  <2> QED
    BY <2>1, <2>2, FS_Subset
<1> DEFINE done == Completed(deal)
           task == SecondTask(deal)
           file == GenerateFile(deal)
<1>5. /\ IsDeal(done) /\ done.stage = 2 /\ done.count < MaxAttempts
      /\ done.complete = done.assigned
  BY <1>1, <1>3, <1>4, Zenon DEF Completed, IsDeal, DealInfo
<1>6. task \in Task /\ task.at > now /\ task.call = "calculate_end"
  <2>1. deal.segs \in Nat
    BY <1>3 DEF IsDeal
  <2>2. task \in Task /\ task.at > now
    BY <2>1, SecondTaskLater, Zenon DEF IInv, ChainTyped
  <2> QED
    BY <2>2 DEF SecondTask
<1>7. /\ DOMAIN file = {"segs", "frag", "owner", "stat"} /\ file.stat = "Calculate"
      /\ \A f \in DOMAIN file.frag :
           DOMAIN file.frag[f] = {"miner", "avail"} /\ file.frag[f].avail = TRUE
  BY DEF GenerateFile
<1>8. /\ DealMap' = [DealMap EXCEPT ![h] = done]
      /\ File' = InsertKey(File, h, file) /\ agenda' = InsertKey(agenda, h, task)
      /\ UNCHANGED <<now, phase, AllMiner, RestoralOrder>>
  BY DEF CompleteDeal, chain, restoral, miners
<1> HIDE DEF done, task, file
<1>9. ChainTyped'
  BY <1>8 DEF IInv, ChainTyped
<1>10. /\ DOMAIN agenda' = DOMAIN agenda \cup {h} /\ agenda'[h] = task
       /\ \A g \in DOMAIN agenda : g # h => agenda'[g] = agenda[g]
  BY <1>8 DEF InsertKey
<1>11. /\ DOMAIN DealMap' = DOMAIN DealMap \cup {h} /\ DealMap'[h] = done
       /\ \A g \in DOMAIN DealMap : g # h => DealMap'[g] = DealMap[g]
  BY <1>8
<1>12. AgendaInv'
  <2>1. now \in Nat /\ AgendaInv
    BY DEF IInv, ChainTyped
  <2> QED
    BY <1>5, <1>6, <1>8, <1>10, <1>11, <2>1, Scheduled
<1>13. DealInv'
  BY <1>5, <1>11, DealWritten, Zenon DEF IInv
<1>14. FileInv'
  BY <1>5, <1>7, <1>8 DEF IInv, FileInv, FilesTyped, CalculatingHasDeal, InsertKey
<1>15. OrderInv'
  BY <1>7, <1>8 DEF IInv, OrderInv, OrdersTyped, LostHasOrder, InsertKey
<1> QED
  BY <1>9, <1>12, <1>13, <1>14, <1>15 DEF IInv

LEMMA TransferReportInv ==
  ASSUME IInv, NEW m \in Miners, NEW h \in Files, TransferReport(m, h)
  PROVE  IInv'
<1> DEFINE deal == [DealMap[h] EXCEPT !.complete = @ \cup {m}]
<1>1. h \in DOMAIN DealMap /\ m \in DealMap[h].assigned /\ phase = "extrinsics"
  BY DEF TransferReport, Submit
<1>2. CASE Cardinality(deal.complete) = Cardinality(deal.assigned)
  <2>1. CompleteDeal(h, deal)
    BY <1>2 DEF TransferReport
  <2> QED
    BY <1>1, <1>2, <2>1, CompleteInv, Zenon
<1>3. CASE Cardinality(deal.complete) # Cardinality(deal.assigned)
  <2>1. /\ DealMap' = [DealMap EXCEPT ![h] = deal]
        /\ UNCHANGED <<chain, agenda, File, RestoralOrder, AllMiner>>
    BY <1>3 DEF TransferReport, tasks, files, restoral, miners
  <2> QED
    BY <1>1, <1>3, <2>1, ReportInv, Zenon
<1> QED
  BY <1>2, <1>3

LEMMA CalculateEndInv ==
  ASSUME IInv, NEW h \in Files, CalculateEnd(h)
  PROVE  IInv'
<1>1. /\ File' = [File EXCEPT ![h].stat = "Active"]
      /\ DealMap' = RemoveKey(DealMap, h) /\ agenda' = RemoveKey(agenda, h)
      /\ UNCHANGED <<now, phase, AllMiner, RestoralOrder>>
  BY DEF CalculateEnd, Settled, chain, restoral
<1>2. ChainTyped' /\ AgendaInv'
  BY <1>1 DEF IInv, ChainTyped, AgendaInv, AgendaAhead, AgendaMatchesDeals, RemoveKey
<1>3. DealInv'
  BY <1>1 DEF IInv, DealInv, DealsTyped, StageIsReported, RemoveKey
<1>4. /\ DOMAIN File' = DOMAIN File
      /\ \A g \in DOMAIN File : /\ DOMAIN File'[g] = DOMAIN File[g]
                                /\ g # h => File'[g] = File[g]
      /\ h \in DOMAIN File => File'[h].stat = "Active" /\ File'[h].frag = File[h].frag
  BY <1>1 DEF IInv, FileInv, FilesTyped
<1>5. FileInv'
  BY <1>1, <1>4 DEF IInv, FileInv, FilesTyped, CalculatingHasDeal, RemoveKey
<1>6. OrderInv'
  BY <1>1, <1>4 DEF IInv, OrderInv, OrdersTyped, LostHasOrder
<1> QED
  BY <1>2, <1>3, <1>5, <1>6 DEF IInv

-----------------------------------------------------------------------------
(* Restoral orders *)

\* A step that changes only what is recorded of fragments, and the orders.
LEMMA FragmentStep ==
  ASSUME IInv, UNCHANGED <<chain, agenda, DealMap, AllMiner>>,
         DOMAIN File' = DOMAIN File,
         \A h \in DOMAIN File : /\ DOMAIN File'[h] = DOMAIN File[h]
                                /\ File'[h].stat = File[h].stat
                                /\ DOMAIN File'[h].frag = DOMAIN File[h].frag
                                /\ \A f \in DOMAIN File[h].frag :
                                     DOMAIN File'[h].frag[f] = DOMAIN File[h].frag[f],
         OrderInv'
  PROVE  IInv'
<1>1. ChainTyped' /\ AgendaInv'
  BY Zenon DEF IInv, ChainTyped, chain, AgendaInv, AgendaAhead, AgendaMatchesDeals
<1>2. DealInv'
  BY Zenon DEF IInv, DealInv, DealsTyped, StageIsReported
<1>3. FileInv'
  BY DEF IInv, FileInv, FilesTyped, CalculatingHasDeal
<1> QED
  BY <1>1, <1>2, <1>3, Zenon DEF IInv

LEMMA OpenOrderInv ==
  ASSUME IInv, NEW m, NEW h, NEW f, NEW order, NEW gone,
         StoredBy(h, f, gone), OpenOrder(h, f, order),
         order = [miner |-> m, origin_miner |-> gone, deadline |-> order.deadline]
  PROVE  IInv'
<1>1. /\ File' = [File EXCEPT ![h].frag[f].avail = FALSE]
      /\ RestoralOrder' = InsertKey(RestoralOrder, <<h, f>>, order)
      /\ UNCHANGED <<chain, agenda, DealMap, AllMiner>>
  BY DEF OpenOrder, tasks, miners
<1>2. h \in DOMAIN File /\ f \in DOMAIN File[h].frag /\ File[h].frag[f].miner = gone
  BY DEF StoredBy
<1>3. /\ DOMAIN File' = DOMAIN File
      /\ \A g \in DOMAIN File :
           /\ DOMAIN File'[g] = DOMAIN File[g] /\ File'[g].stat = File[g].stat
           /\ DOMAIN File'[g].frag = DOMAIN File[g].frag
           /\ \A e \in DOMAIN File[g].frag :
                /\ DOMAIN File'[g].frag[e] = DOMAIN File[g].frag[e]
                /\ File'[g].frag[e].miner = File[g].frag[e].miner
                /\ <<g, e>> # <<h, f>> => File'[g].frag[e] = File[g].frag[e]
  BY <1>1, <1>2 DEF IInv, FileInv, FilesTyped
<1>4. OrdersTyped'
  BY <1>1 DEF IInv, OrderInv, OrdersTyped, InsertKey
<1>5. LostHasOrder'
  <2>1. /\ DOMAIN RestoralOrder' = DOMAIN RestoralOrder \cup {<<h, f>>}
        /\ RestoralOrder'[<<h, f>>].origin_miner = gone
        /\ \A k \in DOMAIN RestoralOrder : k # <<h, f>> => RestoralOrder'[k] = RestoralOrder[k]
    BY <1>1 DEF InsertKey
  <2>2. SUFFICES ASSUME NEW g \in DOMAIN File, NEW e \in DOMAIN File[g].frag,
                        ~ File'[g].frag[e].avail
                 PROVE  /\ <<g, e>> \in DOMAIN RestoralOrder'
                        /\ RestoralOrder'[<<g, e>>].origin_miner = File[g].frag[e].miner
    BY <1>3 DEF LostHasOrder
  <2>3. CASE <<g, e>> = <<h, f>>
    BY <1>2, <2>1, <2>3, ZenonT(30)
  <2>4. CASE <<g, e>> # <<h, f>>
    BY <1>3, <2>1, <2>2, <2>4, SMTT(30) DEF IInv, OrderInv, LostHasOrder
  <2> QED
    BY <2>3, <2>4
<1> QED
  BY <1>1, <1>3, <1>4, <1>5, FragmentStep, Zenon DEF OrderInv

LEMMA ClaimInv ==
  ASSUME IInv, NEW m, NEW h, NEW f, ClaimRestoralOrder(m, h, f)
  PROVE  IInv'
<1>1. /\ RestoralOrder' = [RestoralOrder EXCEPT ![<<h, f>>] = Claimed(@, m)]
      /\ UNCHANGED <<chain, agenda, DealMap, AllMiner, File>>
  BY DEF ClaimRestoralOrder, tasks, miners, files
<1>2. /\ DOMAIN RestoralOrder' = DOMAIN RestoralOrder
      /\ \A k \in DOMAIN RestoralOrder :
           /\ DOMAIN RestoralOrder'[k] = DOMAIN RestoralOrder[k]
           /\ RestoralOrder'[k].origin_miner = RestoralOrder[k].origin_miner
  BY <1>1, ZenonT(30) DEF IInv, OrderInv, OrdersTyped, Claimed
<1>3. OrderInv'
  BY <1>1, <1>2, SMTT(30) DEF IInv, OrderInv, OrdersTyped, LostHasOrder
<1> QED
  BY <1>1, <1>3, FragmentStep

\* Closing an order without moving the fragment leaves nothing lost: the order
\* speaks of another miner than the one the fragment is on.
LEMMA OrderCompleteInv ==
  ASSUME IInv, NEW m, NEW h, NEW f, RestoralOrderComplete(m, h, f)
  PROVE  IInv'
<1> DEFINE from == RestoralOrder[<<h, f>>].origin_miner
<1>1. /\ RestoralOrder' = RemoveKey(RestoralOrder, <<h, f>>)
      /\ UNCHANGED <<chain, agenda, DealMap, AllMiner>>
  BY DEF RestoralOrderComplete, tasks
<1>2. /\ DOMAIN RestoralOrder' = DOMAIN RestoralOrder \ {<<h, f>>}
      /\ \A k \in DOMAIN RestoralOrder' : RestoralOrder'[k] = RestoralOrder[k]
  BY <1>1 DEF RemoveKey
<1>3. OrdersTyped'
  BY <1>2, ZenonT(30) DEF IInv, OrderInv, OrdersTyped
<1>4. CASE StoredBy(h, f, from)
  <2>1. /\ File' = [File EXCEPT ![h].frag[f] = [miner |-> m, avail |-> TRUE]]
        /\ h \in DOMAIN File /\ f \in DOMAIN File[h].frag
    BY <1>4 DEF RestoralOrderComplete, MoveFragment, StoredBy
  <2>2. /\ DOMAIN File' = DOMAIN File
        /\ \A g \in DOMAIN File :
             /\ DOMAIN File'[g] = DOMAIN File[g] /\ File'[g].stat = File[g].stat
             /\ DOMAIN File'[g].frag = DOMAIN File[g].frag
             /\ \A e \in DOMAIN File[g].frag :
                  /\ DOMAIN File'[g].frag[e] = DOMAIN File[g].frag[e]
                  /\ <<g, e>> # <<h, f>> => File'[g].frag[e] = File[g].frag[e]
        /\ File'[h].frag[f].avail = TRUE
    BY <2>1, ZenonT(30) DEF IInv, FileInv, FilesTyped
  <2>3. LostHasOrder'
    <3>1. SUFFICES ASSUME NEW g \in DOMAIN File, NEW e \in DOMAIN File[g].frag,
                          ~ File'[g].frag[e].avail
                   PROVE  /\ <<g, e>> \in DOMAIN RestoralOrder'
                          /\ RestoralOrder'[<<g, e>>].origin_miner = File'[g].frag[e].miner
      BY <2>2, Zenon DEF LostHasOrder
    <3>2. <<g, e>> # <<h, f>>
      BY <2>2, <3>1, Zenon
    <3> QED
      BY <1>2, <2>2, <3>1, <3>2 DEF IInv, OrderInv, LostHasOrder
  <2> QED
    BY <1>1, <1>3, <2>2, <2>3, FragmentStep DEF OrderInv
<1>5. CASE ~ StoredBy(h, f, from)
  <2>1. UNCHANGED File
    BY <1>5, ZenonT(30) DEF RestoralOrderComplete
  <2>2. LostHasOrder'
    <3>1. SUFFICES ASSUME NEW g \in DOMAIN File, NEW e \in DOMAIN File[g].frag,
                          ~ File[g].frag[e].avail
                   PROVE  /\ <<g, e>> \in DOMAIN RestoralOrder'
                          /\ RestoralOrder'[<<g, e>>].origin_miner = File[g].frag[e].miner
      BY <2>1, Zenon DEF LostHasOrder
    <3>2. /\ <<g, e>> \in DOMAIN RestoralOrder
          /\ RestoralOrder[<<g, e>>].origin_miner = File[g].frag[e].miner
      BY <3>1, Zenon DEF IInv, OrderInv, LostHasOrder
    <3>3. <<g, e>> # <<h, f>>
      BY <1>5, <3>2, Zenon DEF StoredBy
    <3> QED
      BY <1>2, <3>2, <3>3, Zenon
  <2> QED
    BY <1>1, <1>3, <2>1, <2>2, FragmentStep, Zenon DEF OrderInv
<1> QED
  BY <1>4, <1>5, ZenonT(30)

-----------------------------------------------------------------------------
(* The other steps, and the theorem *)

LEMMA DealNextInv ==
  ASSUME IInv, DealNext
  PROVE  IInv'
  BY DeclareDealInv, ReassignInv, AbandonInv, FailedCallInv, CalculateEndInv, TransferReportInv, Zenon
     DEF DealNext

LEMMA UserNextInv ==
  ASSUME IInv, UserNext
  PROVE  IInv'
<1>0. FilesTyped /\ AllMiner \subseteq Miners
  BY DEF IInv, FileInv, ChainTyped
<1>1. ASSUME NEW u, NEW b, CreateBucket(u, b) PROVE IInv'
  <2>1. UNCHANGED <<chain, kept, File, AllMiner>>
    BY <1>1 DEF CreateBucket, tasks, restoral, miners, kept
  <2> QED
    BY <1>0, <2>1, QuietStep, ZenonT(30)
<1>2. ASSUME NEW u, NEW b, DeleteBucket(u, b) PROVE IInv'
  <2>1. OnlyOwnersChange
    BY <1>0, <1>2, WrittenBooks, Zenon DEF DeleteBucket
  <2>2. ChainStep /\ UNCHANGED kept /\ UNCHANGED AllMiner
    BY <1>2, Zenon DEF DeleteBucket, tasks, kept, ChainStep
  <2> QED
    BY <1>0, <2>1, <2>2, OwnerStep, Zenon
<1>3. ASSUME NEW u, NEW b, NEW h, NEW segs, DeclareHeld(u, b, h, segs) PROVE IInv'
  <2>1. File' = [File EXCEPT ![h].owner = Append(@, <<u, b>>)]
    BY <1>3 DEF DeclareHeld
  <2>2. OnlyOwnersChange
    BY <1>0, <2>1, Zenon DEF FilesTyped, OnlyOwnersChange
  <2>3. ChainStep /\ UNCHANGED kept /\ UNCHANGED AllMiner
    BY <1>3, Zenon DEF DeclareHeld, tasks, restoral, miners, kept, ChainStep
  <2> QED
    BY <1>0, <2>2, <2>3, OwnerStep
<1>4. ASSUME NEW u, NEW t, NEW tb, NEW h, OwnershipTransfer(u, t, tb, h) PROVE IInv'
  <2>1. OnlyOwnersChange
    BY <1>0, <1>4, WrittenBooks, ZenonT(30) DEF OwnershipTransfer
  <2>2. ChainStep /\ UNCHANGED kept /\ UNCHANGED AllMiner
    BY <1>4, ZenonT(30) DEF OwnershipTransfer, tasks, kept, ChainStep
  <2> QED
    BY <1>0, <2>1, <2>2, OwnerStep
<1>5. ASSUME NEW u, NEW h, DeleteFile(u, h) PROVE IInv'
  <2>1. OnlyOwnersChange
    BY <1>0, <1>5, WrittenBooks, Zenon DEF DeleteFile
  <2>2. ChainStep /\ UNCHANGED kept /\ UNCHANGED AllMiner
    BY <1>5 DEF DeleteFile, tasks, kept, ChainStep
  <2> QED
    BY <1>0, <2>1, <2>2, OwnerStep
<1> QED
  BY <1>1, <1>2, <1>3, <1>4, <1>5, Zenon DEF UserNext

LEMMA LeaseNextInv ==
  ASSUME IInv, LeaseNext
  PROVE  IInv'
<1>0. FilesTyped /\ AllMiner \subseteq Miners
  BY DEF IInv, FileInv, ChainTyped
<1>1. ASSUME OnInitialize PROVE IInv'
  <2>1. PICK books : WriteBooks(books)
    BY <1>1 DEF OnInitialize
  <2>2. OnlyOwnersChange
    BY <1>0, <2>1, WrittenBooks, Zenon
  <2>3. ChainStep /\ UNCHANGED kept /\ UNCHANGED AllMiner
    BY <1>1, Zenon DEF OnInitialize, tasks, kept, ChainStep
  <2> QED
    BY <1>0, <2>2, <2>3, OwnerStep
<1>2. ASSUME NEW u, NEW n, BuySpace(u, n) \/ ExpansionSpace(u, n) \/ RenewalSpace(u, n)
      PROVE  IInv'
  <2>1. UNCHANGED <<chain, kept, File, AllMiner>>
    BY <1>2, Zenon DEF BuySpace, ExpansionSpace, RenewalSpace, tasks, files, restoral, miners, kept
  <2> QED
    BY <1>0, <2>1, QuietStep
<1> QED
  BY <1>1, <1>2, Zenon DEF LeaseNext

LEMMA MinerNextInv ==
  ASSUME IInv, MinerNext
  PROVE  IInv'
<1>0. AllMiner \subseteq Miners
  BY DEF IInv, ChainTyped
<1>1. PICK m \in Miners :
        \/ Regnstk(m) \/ UploadFiller(m) \/ DeleteFiller(m) \/ ReplaceFileReport(m)
        \/ MinerExitPrep(m) \/ MinerExit(m) \/ MinerExitFails(m) \/ ForceMinerExit(m)
        \/ MinerWithdraw(m)
        \/ \E h \in Files, f \in AnyFrag :
             \/ GenerateRestoralOrder(m, h, f) \/ ClaimRestoralOrder(m, h, f)
             \/ RestoralOrderComplete(m, h, f)
             \/ \E gone \in Miners : ClaimRestoralNoexistOrder(m, gone, h, f)
  BY DEF MinerNext
<1>2. CASE Regnstk(m)
  BY <1>0, <1>2, QuietStep, Zenon DEF Regnstk, tasks, files, restoral, kept
<1>3. CASE UploadFiller(m) \/ DeleteFiller(m) \/ ReplaceFileReport(m)
  BY <1>0, <1>3, QuietStep, Zenon
     DEF UploadFiller, DeleteFiller, ReplaceFileReport, tasks, files, restoral, miners, kept
<1>4. CASE MinerExitPrep(m) \/ MinerExitFails(m) \/ MinerWithdraw(m)
  BY <1>0, <1>4, QuietStep, Zenon
     DEF MinerExitPrep, MinerExitFails, MinerWithdraw, tasks, files, restoral, miners, kept
<1>5. CASE MinerExit(m) \/ ForceMinerExit(m)
  BY <1>0, <1>5, QuietStep, Zenon DEF MinerExit, ForceMinerExit, Leave, tasks, files, miners, kept
<1>6. ASSUME NEW h, NEW f, GenerateRestoralOrder(m, h, f) PROVE IInv'
  <2>1. /\ StoredBy(h, f, m)
        /\ OpenOrder(h, f, [miner |-> m, origin_miner |-> m, deadline |-> 0])
    BY <1>6, Zenon DEF GenerateRestoralOrder
  <2> QED
    BY <2>1, OpenOrderInv, Zenon
<1>7. ASSUME NEW h, NEW f, NEW gone, ClaimRestoralNoexistOrder(m, gone, h, f) PROVE IInv'
  <2>1. StoredBy(h, f, gone) /\ OpenOrder(h, f, NoexistOrder(m, gone))
    BY <1>7 DEF ClaimRestoralNoexistOrder
  <2>2. NoexistOrder(m, gone) = [miner |-> m, origin_miner |-> gone,
                                 deadline |-> NoexistOrder(m, gone).deadline]
    BY DEF NoexistOrder
  <2> QED
    BY <2>1, <2>2, OpenOrderInv, Zenon
<1> QED
  BY <1>1, <1>2, <1>3, <1>4, <1>5, <1>6, <1>7, ClaimInv, OrderCompleteInv

\* Blocks follow each other only when nothing due is left.
LEMMA BlockInv ==
  ASSUME IInv, NextBlock \/ SchedulerDone
  PROVE  IInv'
<1>1. UNCHANGED <<agenda, DealMap, File, RestoralOrder, AllMiner>>
  BY Zenon DEF NextBlock, SchedulerDone, tasks, files, restoral, miners
<1>2. ChainTyped'
  BY <1>1 DEF IInv, ChainTyped, Phase, NextBlock, SchedulerDone
<1>3. AgendaAhead'
  BY <1>1 DEF IInv, ChainTyped, AgendaInv, AgendaAhead, Task, NextBlock, SchedulerDone
<1>4. AgendaInv'
  BY <1>1, <1>3, ZenonT(30) DEF IInv, AgendaInv, AgendaAhead, AgendaMatchesDeals
<1>5. DealInv' /\ FileInv' /\ OrderInv'
  BY <1>1 DEF IInv, DealInv, DealsTyped, StageIsReported, FileInv, FilesTyped,
     CalculatingHasDeal, OrderInv, OrdersTyped, LostHasOrder
<1> QED
  BY <1>2, <1>4, <1>5, Zenon DEF IInv

LEMMA NextInv == IInv /\ [Next]_vars => IInv'
<1> SUFFICES ASSUME IInv, [Next]_vars PROVE IInv'
  OBVIOUS
<1>1. CASE UNCHANGED vars
  BY <1>1, QuietStep DEF IInv, ChainTyped, vars, tasks, files, restoral, miners, kept
<1>2. CASE Next
  BY <1>2, DealNextInv, UserNextInv, LeaseNextInv, MinerNextInv, BlockInv DEF Next
<1> QED
  BY <1>1, <1>2

LEMMA Invariance == Spec => []IInv
  BY InitInv, NextInv, PTL DEF Spec

\* Whatever is declared, reported, repeated, timed out, deleted and cleared, and
\* whichever scheduled calls fail, a call on the agenda belongs to a deal in the
\* matching stage and attempt and is never overdue (start_first_task,
\* start_second_task, deal_reassign_miner, calculate_end).
THEOREM AgendaIsConsistent == Spec => []AgendaMatchesDeals
<1>1. IInv => AgendaMatchesDeals
  BY DEF IInv, AgendaInv
<1> QED
  BY <1>1, Invariance, PTL

\* A file that is being tagged has a deal in stage 2, and a file in use has none,
\* although buckets and leases are cleared and reports repeated under way.
THEOREM TaggingHasDeal == Spec => []CalculatingHasDeal
<1>1. IInv => CalculatingHasDeal
  BY DEF IInv, FileInv
<1> QED
  BY <1>1, Invariance, PTL

\* A deal is in stage 2 exactly when all its assigned miners have reported, and
\* reports of an earlier assignment do not count (transfer_report,
\* deal_reassign_miner).
THEOREM ReportsDecideStage == Spec => []StageIsReported
<1>1. IInv => StageIsReported
  BY DEF IInv, DealInv
<1> QED
  BY <1>1, Invariance, PTL

\* A lost fragment always has an open order from the miner it is recorded on
\* (generate_restoral_order, claim_restoral_order, claim_restoral_noexist_order,
\* restoral_order_complete, and every call that removes files).
THEOREM LostIsRestorable == Spec => []LostHasOrder
<1>1. IInv => LostHasOrder
  BY DEF IInv, OrderInv
<1> QED
  BY <1>1, Invariance, PTL
=============================================================================
