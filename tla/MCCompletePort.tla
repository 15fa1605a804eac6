--------------------------- MODULE MCCompletePort ---------------------------
(* Up to three threads waited for two at a time (the code: 64), three      *)
(* objects of which one ends its worker.                                   *)
EXTENDS CompletePort

CONSTANTS o1, o2, o3

MCObjects == {o1, o2, o3}
MCExitObjects == {o3}
=============================================================================
