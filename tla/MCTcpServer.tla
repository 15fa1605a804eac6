---------------------------- MODULE MCTcpServer -----------------------------
(* Two workers and two connections, one after or beside the other.  A      *)
(* server that serves, with a piece of data and two of a reply, a          *)
(* disconnection by the program and a failing call of Windows; and one     *)
(* that the program stops while clients connect and one of them leaves.    *)
EXTENDS TcpServer

Serving == [leaves |-> 2, data |-> 1, sends |-> 1, disconnects |-> 1, failures |-> 1,
            stop |-> FALSE]
Stopping == [leaves |-> 1, data |-> 0, sends |-> 0, disconnects |-> 0, failures |-> 0,
             stop |-> TRUE]

MCBudgets == {[Serving EXCEPT !.sends = 0], [Serving EXCEPT !.disconnects = 0],
              [Serving EXCEPT !.failures = 0], Stopping}
=============================================================================
