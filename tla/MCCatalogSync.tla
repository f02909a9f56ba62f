--------------------------- MODULE MCCatalogSync ---------------------------
(***************************************************************************)
(* Instances of CatalogSync for TLC.  Three synchronizations are one that  *)
(* is dropped, one that takes its place, and one after a restart.          *)
(***************************************************************************)
EXTENDS CatalogSync
=============================================================================
