----------------------------- MODULE MCSqlStack -----------------------------
(* Three statements; the stack is opened, closed and opened again, so that *)
(* a thread that outlived CloseStack meets its successor.                  *)
EXTENDS SqlStack
=============================================================================
