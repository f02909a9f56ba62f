------------------------ MODULE MCTransactionManager ------------------------
(***************************************************************************)
(* Instances of TransactionManager for TLC.  Three requests are one that   *)
(* runs and two that merge behind it, or one that comes after both; the    *)
(* manager is paused and unpaused at will.  The proofs are for any number. *)
(***************************************************************************)
EXTENDS TransactionManager
=============================================================================
