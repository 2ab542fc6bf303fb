------------------------- MODULE MCAccountDeletion -------------------------
(* Small instance of AccountDeletion for TLC. *)
EXTENDS AccountDeletion
=============================================================================
