----------------------------- MODULE MCUseCount -----------------------------
(* Three handles and three counts: a count shared by all, and counts that  *)
(* Makeonly splits off it.                                                 *)
EXTENDS UseCount
=============================================================================
