---------------------------- MODULE MCWakeThread ----------------------------
(* Two posting threads, three operations, one of which posts a fourth. *)
EXTENDS WakeThread

CONSTANTS o1, o2, o3, o4

MCOperates == {o1, o2, o3, o4}
MCChild == [o \in MCOperates |-> IF o = o1 THEN o4 ELSE None]

=============================================================================
