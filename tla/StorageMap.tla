----------------------------- MODULE StorageMap -----------------------------
(***************************************************************************)
(* A FRAME StorageMap is a partial function: contains_key is membership of *)
(* its domain, insert overwrites or adds one key, remove drops one key.    *)
(* The pallets' maps are all represented this way.  External to src/: the  *)
(* operators follow how the pallets use frame_support::StorageMap.         *)
(***************************************************************************)

InsertKey(map, k, v) == [x \in DOMAIN map \cup {k} |-> IF x = k THEN v ELSE map[x]]

RemoveKey(map, k) == [x \in DOMAIN map \ {k} |-> map[x]]

EmptyMap == [x \in {} |-> x]

\* map is a partial function from S to V: the type of a StorageMap.
IsMap(map, S, V) == DOMAIN map \subseteq S /\ map \in [DOMAIN map -> V]
=============================================================================
