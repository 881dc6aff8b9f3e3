---------------------------- MODULE MCBatchStore -----------------------------
(* BatchStore for TLC.  Two sessions suffice for every interference the      *)
(* mutex can let through; three keys let a scan mix records that are         *)
(* persisted, replaced, deleted and only staged.                             *)
EXTENDS BatchStore
==============================================================================
