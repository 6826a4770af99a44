----------------------------- MODULE Assignment -----------------------------
(***************************************************************************)
(* random_assign_miner and generate_file of pallet file-bank: which miners *)
(* may be drawn for a file, which of them gets which fragment, and which   *)
(* fragments the file record keeps.                                        *)
(*                                                                         *)
(* A file is declared with some number of segments; fragment <<s, i>> is   *)
(* the i-th fragment of segment s.  Fragment hashes are taken to be        *)
(* distinct.  Draws are random in the code, so every order is possible.    *)
(***************************************************************************)
EXTENDS MinerSpace, FiniteSets, Sequences, FiniteSetsExt

CONSTANTS FragmentCount,  \* fragments of a segment (SEGMENT_SIZE*15/10/FRAGMENT_SIZE)
          MaxTries        \* draws before random_assign_miner gives up (max_count)

\* max_count is five times miner_count: enough draws for a whole segment.
ASSUME AssignmentAssumption ==
  FragmentCount \in Nat \ {0} /\ MaxTries \in Nat \ {0} /\ FragmentCount <= MaxTries

Frags(segs) == (1..segs) \X (1..FragmentCount)

CalFileSize(segs) == segs * FragmentCount

\* Mutant: one idle fragment per segment is enough.
MutantQualifiedExactly(items, all, segs) ==
  {m \in all : IsPositive(items, m) /\ items[m].idle >= segs}

\* The miners a draw can accept for a file of that many segments.
Qualified(items, all, segs) ==
  {m \in all : IsPositive(items, m) /\ items[m].idle > segs}

\* Accounts in AllMiner that are not registered: drawing one is an error.
Unregistered(items, all) == all \ DOMAIN items

\* How many miners the drawing loop can end with: as many as there are
\* fragments in a segment, or all that qualify once every account was drawn, or
\* fewer once the draws are used up on accounts that do not qualify.
DrawCounts(items, all, segs) ==
  LET good == Cardinality(Qualified(items, all, segs))
  IN  {k \in 0..FragmentCount :
         /\ k <= good
         /\ \/ k = FragmentCount
            \/ k = good /\ Unregistered(items, all) = {}
            \/ k + Cardinality(all \cap DOMAIN items) - good >= MaxTries}

\* The sequences of miners the drawing loop can end with.
Draws(items, all, segs) ==
  UNION {{d \in [1..k -> Qualified(items, all, segs)] :
            \A i, j \in 1..k : d[i] = d[j] => i = j} :
         k \in DrawCounts(items, all, segs)}

Drawn(d) == {d[i] : i \in 1..Len(d)}

\* Mutant: also insists on a miner for each fragment of a segment.
MutantEnoughMiners(items, d) ==
  Len(d) = FragmentCount /\ MapThenSumSet(LAMBDA m : items[m].idle, Drawn(d)) > FragmentCount

EnoughIdle(items, d) ==
  /\ d # << >>
  /\ MapThenSumSet(LAMBDA m : items[m].idle, Drawn(d)) > FragmentCount

\* Fragment g is handed out before fragment f.
Before(g, f) == g[1] < f[1] \/ (g[1] = f[1] /\ g[2] < f[2])

\* Mutant: a miner may give away its last idle fragment.
MutantFitsExactly(items, segs, place, f, m) ==
  items[m].idle > Cardinality({g \in Frags(segs) : Before(g, f) /\ place[g] = m})

\* When it is fragment f's turn, miner m would keep a spare idle fragment.
Fits(items, segs, place, f, m) ==
  items[m].idle > Cardinality({g \in Frags(segs) : Before(g, f) /\ place[g] = m}) + 1

\* place hands the fragments out the way the loops of random_assign_miner do:
\* per segment round the drawn miners from the first one, skipping a miner that
\* would be left with no spare idle fragment.
IsPlacement(items, d, segs, place) ==
  \A f \in Frags(segs) :
    LET Pos(m) == CHOOSE i \in 1..Len(d) : d[i] = m
        start == IF f[2] = 1 THEN 1 ELSE (Pos(place[<<f[1], f[2] - 1>>]) % Len(d)) + 1
        Turn(m) == (Pos(m) - start) % Len(d)
    IN  /\ Fits(items, segs, place, f, place[f])
        /\ \A m \in Drawn(d) :
             Turn(m) < Turn(place[f]) => ~ Fits(items, segs, place, f, m)

Placements(items, d, segs) ==
  {place \in [Frags(segs) -> Drawn(d)] : IsPlacement(items, d, segs, place)}

\* The successful outcomes of random_assign_miner: the miners and who gets what.
Assignments(items, all, segs) ==
  UNION {{[assigned |-> Drawn(d), place |-> place] : place \in Placements(items, d, segs)} :
         d \in {e \in Draws(items, all, segs) : EnoughIdle(items, e)}}

\* The draws that end in an error: BugInvalid, NodesInsufficient, or
\* PanicOverflow after circling miners that are all full.
FailingDraws(items, all, segs) ==
  {d \in Draws(items, all, segs) :
     ~ EnoughIdle(items, d) \/ Placements(items, d, segs) = {}}

\* random_assign_miner can also fail with NotMiner.
AssignMayFail(items, all, segs) ==
  Unregistered(items, all) # {} \/ FailingDraws(items, all, segs) # {}

\* The fragments generate_file keeps.  When as many miners were drawn as a
\* segment has fragments, a second fragment of a segment on one miner is dropped.
Kept(assigned, place, segs) ==
  {f \in Frags(segs) :
     Cardinality(assigned) = FragmentCount =>
       \A g \in Frags(segs) : g[1] = f[1] /\ Before(g, f) => place[g] # place[f]}
=============================================================================
