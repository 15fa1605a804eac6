----------------------------- MODULE MCMemPool -----------------------------
(* A small instance: two threads, objects that fit into a block or not.   *)
EXTENDS MemPool

MCSizes == {1, 3}
=============================================================================
