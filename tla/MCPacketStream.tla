--------------------------- MODULE MCPacketStream ---------------------------
(* Packets to scale: 4 bytes around the content in place of 15, and a      *)
(* length that can be read from the third byte on in place of the eleventh;*)
(* a WSARecv brings up to two packets and the beginning of a third.  The   *)
(* content of a packet is one plain byte, or two that are one character.   *)
(* Two connections use the IO_CONTEXT in turn.                             *)
EXTENDS PacketStream

MCSendable == {<<5, 2>>, <<6, 2>>}
MCJunkLens == {5}
=============================================================================
