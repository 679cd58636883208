----------------------------- MODULE MCTimeSync -----------------------------
(* TimeSync with the host's clock set back or forward. *)
EXTENDS TimeSync

MCSteps == {-4, 4}
=============================================================================
