--------------------------- MODULE MCReceiverPorts ---------------------------
(* Three threads of the TCP server, the two ports of the code, and enough  *)
(* packets for the number of the port to go round twice.                   *)
EXTENDS ReceiverPorts
=============================================================================
