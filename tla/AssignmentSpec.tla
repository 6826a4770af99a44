--------------------------- MODULE AssignmentSpec ---------------------------
(***************************************************************************)
(* random_assign_miner followed by generate_file, from any idle space the  *)
(* miners can have: the inputs are chosen once, then a file is assigned or *)
(* refused.                                                                *)
(***************************************************************************)
EXTENDS Assignment, TLC

CONSTANTS Miners,
          MaxIdle,      \* bound on the idle fragments of a miner
          MaxSegments   \* bound on the segments of the file

VARIABLES items, segs, outcome

vars == <<items, segs, outcome>>

Pending == [tag |-> "pending"]

Init ==
  /\ \E idle \in [Miners -> 0..MaxIdle] :
       items = [m \in Miners |-> [NewMiner EXCEPT !.idle = idle[m]]]
  /\ segs \in 1..MaxSegments
  /\ outcome = Pending

Assign ==
  /\ outcome = Pending
  /\ \E a \in Assignments(items, Miners, segs) :
       outcome' = [tag |-> "file", assigned |-> a.assigned, place |-> a.place,
                   kept |-> Kept(a.assigned, a.place, segs)]
  /\ UNCHANGED <<items, segs>>

Refuse ==
  /\ outcome = Pending
  /\ \E d \in FailingDraws(items, Miners, segs) :
       outcome' = [tag |-> "refused", drawn |-> Drawn(d)]
  /\ UNCHANGED <<items, segs>>

Next == Assign \/ Refuse

Spec == Init /\ [][Next]_vars

\* Every order of drawing is possible: the miners are interchangeable.
Symmetric == Permutations(Miners)

-----------------------------------------------------------------------------
Load(m) == Cardinality({f \in Frags(segs) : outcome.place[f] = m})

\* generate_file keeps every fragment random_assign_miner handed out: skipping a
\* miner used for the same segment never drops one, however uneven the miners'
\* idle space made the round of the miners.
NothingIsDropped == outcome.tag = "file" => outcome.kept = Frags(segs)

\* The lock_space loop that ends random_assign_miner cannot fail, and leaves
\* every miner that got a fragment a spare idle one.
LocksFit ==
  outcome.tag = "file" =>
    \A m \in outcome.assigned : Load(m) > 0 => Load(m) < items[m].idle

Room(ms) == MapThenSumSet(LAMBDA m : items[m].idle - 1, ms)

\* What is refused could not be placed: the miners drawn are fewer than a segment
\* has fragments and, filled up to the spare fragment, too small for the file, so
\* that the search for the next miner never circles while one of them has room.
\* Miners that were not drawn may have had room, but only when so many accounts
\* do not qualify that the MaxTries draws can be used up on them.
RefusedOnlyWhenFull ==
  outcome.tag = "refused" =>
    LET good == Qualified(items, Miners, segs)
    IN  /\ Cardinality(outcome.drawn) < FragmentCount
        /\ Room(outcome.drawn) < CalFileSize(segs)
        /\ outcome.drawn = good \/ Cardinality(Miners \ good) > MaxTries - FragmentCount
=============================================================================
