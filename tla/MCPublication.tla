---------------------------- MODULE MCPublication ----------------------------
(***************************************************************************)
(* Publication for TLC.  The wheels report zero speed, so the pose stays   *)
(* where it is: Estimates follows the pose, this run follows the messages. *)
(***************************************************************************)
EXTENDS Publication

MCTable == [heading \in 0 .. 1 |-> 1]
MCTwists == {[vx |-> 0, wz |-> 0]}
=============================================================================
