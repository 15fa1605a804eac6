-------------------------- MODULE MCServiceControl --------------------------
(* The service is started once, Windows sends two controls and             *)
(* ReinstallService one more.                                              *)
EXTENDS ServiceControl
=============================================================================
