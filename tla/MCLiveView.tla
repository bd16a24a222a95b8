----------------------------- MODULE MCLiveView -----------------------------
(***************************************************************************)
(* Two networks share a broadcast channel of one message.                  *)
(***************************************************************************)
EXTENDS LiveView

CONSTANTS m1, m2
=============================================================================
