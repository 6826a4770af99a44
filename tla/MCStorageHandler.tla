-------------------------- MODULE MCStorageHandler --------------------------
(* The model values of the StorageHandler model: one user with the whole   *)
(* life of a lease.                                                        *)
EXTENDS StorageHandler

CONSTANT alice

OneUser == {alice}
=============================================================================
