--------------------------- MODULE DealLifecycle ----------------------------
(***************************************************************************)
(* What pallet file-bank promises about the life of a file: it is declared *)
(* and transferred in at most MaxAttempts attempts, each following a       *)
(* time-out of the one before; it is given up only after the last; once    *)
(* transferred it is tagged, and only a tagged file becomes stored; only   *)
(* files on the chain are removed, any number of them in one step.         *)
(***************************************************************************)
EXTENDS Integers

CONSTANTS Files, MaxAttempts

VARIABLES stage, attempt

Stages == {"absent", "transfer", "tagging", "stored"}

TypeOK == stage \in [Files -> Stages] /\ attempt \in [Files -> 0..MaxAttempts]

Init == stage = [h \in Files |-> "absent"] /\ attempt = [h \in Files |-> 0]

Move(h, from, to, n) ==
  /\ stage[h] = from
  /\ stage' = [stage EXCEPT ![h] = to]
  /\ attempt' = [attempt EXCEPT ![h] = n]

Declare(h) == Move(h, "absent", "transfer", 1)

Retry(h) == attempt[h] < MaxAttempts /\ Move(h, "transfer", "transfer", attempt[h] + 1)

Abandon(h) == attempt[h] = MaxAttempts /\ Move(h, "transfer", "absent", 0)

Complete(h) == Move(h, "transfer", "tagging", 0)

Settle(h) == Move(h, "tagging", "stored", 0)

Remove(hs) ==
  /\ \A h \in hs : stage[h] \in {"tagging", "stored"}
  /\ stage' = [h \in Files |-> IF h \in hs THEN "absent" ELSE stage[h]]
  /\ UNCHANGED attempt

Next ==
  \/ \E h \in Files : Declare(h) \/ Retry(h) \/ Abandon(h) \/ Complete(h) \/ Settle(h)
  \/ \E hs \in SUBSET Files : Remove(hs)

Spec == Init /\ [][Next]_<<stage, attempt>>
=============================================================================
