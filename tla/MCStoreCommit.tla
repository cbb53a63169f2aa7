---------------------------- MODULE MCStoreCommit ---------------------------
(***************************************************************************)
(* Stores of one or two data pages of two words each: sessions end in the  *)
(* middle of a page, so that committed and new data share one.             *)
(***************************************************************************)
EXTENDS StoreCommit, TLC

CONSTANTS v1, v2
=============================================================================
