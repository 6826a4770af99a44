----------------------------- MODULE MinerSpace -----------------------------
(***************************************************************************)
(* The space half of pallet sminer: what the MinerControl functions that   *)
(* file-bank calls do to the map MinerItems.  Collateral, debt and rewards *)
(* are left out here.  Amounts are counted in fragments (8 MiB).           *)
(*                                                                         *)
(* file-bank locks and unlocks the tasks of a whole deal in a loop; amount *)
(* gives, for every miner, the fragments the deal's tasks add up to.       *)
(***************************************************************************)
EXTENDS Integers

MinerState == {"positive", "frozen", "exit", "lock", "offline"}

MinerInfo == [state: MinerState, idle: Nat, lock: Nat, service: Nat]

\* regnstk: the record of a newly registered miner.
NewMiner == [state |-> "positive", idle |-> 0, lock |-> 0, service |-> 0]

\* is_positive, is_lock: an error, so FALSE for the caller, if not registered.
IsPositive(items, m) == m \in DOMAIN items /\ items[m].state = "positive"

IsLock(items, m) == m \in DOMAIN items /\ items[m].state = "lock"

UpdateMinerState(items, m, state) == [items EXCEPT ![m].state = state]

\* lock_space
CanLockSpace(items, amount) ==
  \A m \in DOMAIN amount : amount[m] > 0 => m \in DOMAIN items /\ amount[m] <= items[m].idle

LockSpace(items, amount) ==
  [m \in DOMAIN items |-> [items[m] EXCEPT !.lock = @ + amount[m], !.idle = @ - amount[m]]]

\* unlock_space: a miner that is no longer registered is skipped.
CanUnlockSpace(items, amount) ==
  \A m \in DOMAIN items : amount[m] <= items[m].lock

UnlockSpace(items, amount) ==
  [m \in DOMAIN items |-> [items[m] EXCEPT !.lock = @ - amount[m], !.idle = @ + amount[m]]]

\* unlock_space_to_service: a miner that is no longer registered is an error.
CanUnlockSpaceToService(items, amount) ==
  \A m \in DOMAIN amount : amount[m] > 0 => m \in DOMAIN items /\ amount[m] <= items[m].lock

UnlockSpaceToService(items, amount) ==
  [m \in DOMAIN items |-> [items[m] EXCEPT !.lock = @ - amount[m], !.service = @ + amount[m]]]

\* Mutant: idle space is not looked at.
MutantSubIdleUnchecked(items, m, n) == TRUE

\* add_miner_idle_space and sub_miner_idle_space, for a miner that is positive.
CanSubIdleSpace(items, m, n) == n <= items[m].idle

AddIdleSpace(items, m, n) == [items EXCEPT ![m].idle = @ + n]

SubIdleSpace(items, m, n) == [items EXCEPT ![m].idle = @ - n]

\* add_miner_service_space and sub_miner_service_space do nothing for a miner
\* that is not registered or has exited.
Serving(items, m) == m \in DOMAIN items /\ items[m].state # "exit"

CanSubServiceSpace(items, m, n) == Serving(items, m) => n <= items[m].service

AddServiceSpace(items, m, n) ==
  IF Serving(items, m) THEN [items EXCEPT ![m].service = @ + n] ELSE items

\* Mutant: the miner's service space stays.
MutantServiceKept(items, m, n) == items

SubServiceSpace(items, m, n) ==
  IF Serving(items, m) THEN [items EXCEPT ![m].service = @ - n] ELSE items
=============================================================================
