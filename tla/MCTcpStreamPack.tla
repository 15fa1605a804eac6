-------------------------- MODULE MCTcpStreamPack --------------------------
(* Packets to scale: a header of 3 bytes in place of 10, the length being  *)
(* its last, 2 bytes behind the content in place of 5, contents of 2 bytes *)
(* or of 1, 4 and 1; a read brings up to a packet and the header of the    *)
(* next.  The check code of the first packet reads 'S:', no other does.    *)
(* What is misread as a length is too short for a packet, one, or too long.*)
EXTENDS TcpStreamPack

MCStreams == {[p \in 0..MaxPacks |-> 7 * p],
              [p \in 0..MaxPacks |-> <<0, 6, 15, 21>>[p + 1]]}
MCSums == {{1}}
MCMisreadLens == {4, 8, 30}
=============================================================================
