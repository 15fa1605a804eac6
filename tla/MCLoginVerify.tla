--------------------------- MODULE MCLoginVerify ---------------------------
(* Two logins, at two servers, and one search. *)
EXTENDS LoginVerify

=============================================================================
