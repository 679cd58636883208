------------------------------- MODULE MCGlide -------------------------------
(* Glide for TLC: two settings of the limits, with the yaw feedback on and off. *)
EXTENDS Glide

MCLimits(linear, yaw, corr) ==
    [x \in Axes |-> CASE x = "linear" -> linear [] x = "yaw" -> yaw [] OTHER -> corr]

MCConfig ==
    [accel |-> MCLimits(1, 2, 1), jerk |-> MCLimits(1, 1, 1), max |-> MCLimits(1, 2, 2),
     wheel_max |-> 3, kp |-> 1, ki |-> 1, deadband |-> 1, feedback |-> TRUE]

MCConfigs ==
    {MCConfig,
     [MCConfig EXCEPT !.accel = MCLimits(1, 1, 1), !.feedback = FALSE]}

MCRates == {-1, 2}
MCRequests == {-1, 0, 1}
=============================================================================
