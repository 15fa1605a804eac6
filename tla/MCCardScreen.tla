---------------------------- MODULE MCCardScreen ----------------------------
(* The screen is made at most twice.  It posts two operators and shows one *)
(* dialog, or posts one and shows two, of two cards.                       *)
EXTENDS CardScreen

=============================================================================
