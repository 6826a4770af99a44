----------------------------- MODULE MCFileBank -----------------------------
(* The model values and bounds of the FileBank models. *)
EXTENDS FileBankBooks, TLC

CONSTANTS alice, bob, m1, m2, m3, m4, f1, f2, b1, b2,
          Fill,     \* fillers every miner starts with
          Bought    \* total of every lease at the start

OneUser == {alice}
TwoUsers == {alice, bob}
OneMiners == {m1}
TwoMiners == {m1, m2}
ThreeMiners == {m1, m2, m3}
FourMiners == {m1, m2, m3, m4}
OneInOrder == <<m1>>
TwoInOrder == <<m1, m2>>
ThreeInOrder == <<m1, m2, m3>>
FourInOrder == <<m1, m2, m3, m4>>
OneFile == {f1}
TwoFiles == {f1, f2}
OneBucket == {b1}
TwoBuckets == {b1, b2}
EqualFillers == [m \in Miners |-> Fill]
\* m1 has room for one file more than the others.
UnevenFillers == [m \in Miners |-> IF m = m1 THEN Fill ELSE Fill - 1]
EqualSpace == [u \in Users |-> Bought]

\* Accounts and hashes of one kind are interchangeable as long as the order of
\* the miners' accounts does not matter: it does only when on_initialize stops
\* half way through a file.
Symmetric ==
  Permutations(Users) \cup Permutations(Files) \cup Permutations(Miners \ Leavers)

SymmetricHolders == Permutations(Users) \cup Permutations(Files)
=============================================================================
