------------------------------ MODULE Odometry ------------------------------
(***************************************************************************)
(* odometry.c: the wheel pose, as operators on a record `o`.  Both images  *)
(* keep one; Publication and Estimates run it.                             *)
(*                                                                         *)
(* Speeds and times are whole numbers; o.age stands for now - sample_us.   *)
(* What the code halves is kept doubled: a distance and a turn in half     *)
(* units, the heading in the middle of an interval in quarter units, for   *)
(* which COS and SIN are the tables of the libm functions.                 *)
(***************************************************************************)
EXTENDS Integers

CONSTANTS
    ODOM_MAX_DT,   \* ODOM_MAX_DT_US
    TURN,          \* 2 * PI, in half units of angle
    COS, SIN       \* of a heading in quarter units

ASSUME OdometryAssumption ==
    /\ ODOM_MAX_DT \in Nat \ {0}
    /\ TURN \in Nat \ {0}
    /\ COS \in [0 .. 2 * TURN - 1 -> Int]
    /\ SIN \in [0 .. 2 * TURN - 1 -> Int]

Headings == {a \in -TURN .. TURN : -TURN < 2 * a /\ 2 * a <= TURN}

OdometryType ==
    [x : Int, y : Int, yaw : Headings, vx : Int, wz : Int,
     age : 0 .. ODOM_MAX_DT + 1, valid : BOOLEAN, tracking : BOOLEAN]

\* (odometry_t){0}
NoOdometry ==
    [x |-> 0, y |-> 0, yaw |-> 0, vx |-> 0, wz |-> 0, age |-> 0,
     valid |-> FALSE, tracking |-> FALSE]

\* Mutant: the next interval starts before the reset.
odometry_reset_pose_Tracking(o) == [o EXCEPT !.x = 0, !.y = 0, !.yaw = 0, !.valid = FALSE]

\* The pose is forgotten, and with `tracking` the interval that was open.
odometry_reset_pose(o) ==
    [o EXCEPT !.x = 0, !.y = 0, !.yaw = 0, !.valid = FALSE, !.tracking = FALSE]

\* An angle brought into (-PI, PI].
Wrap(a) == LET r == a % TURN IN IF 2 * r > TURN THEN r - TURN ELSE r

\* The pose after an interval of length o.age that ends at speeds vx and wz.
Advance(o, vx, wz) ==
    LET distance == (o.vx + vx) * o.age
        turn == (o.wz + wz) * o.age
        mid == (2 * o.yaw + turn) % (2 * TURN)
    IN  [o EXCEPT !.x = @ + distance * COS[mid],
                  !.y = @ + distance * SIN[mid],
                  !.yaw = Wrap(@ + turn)]

\* `valid` is the caller's flag with isfinite of both speeds in it.
odometry_update(o, vx, wz, valid) ==
    IF ~valid THEN [o EXCEPT !.valid = FALSE, !.tracking = FALSE]
    ELSE LET moved == IF o.tracking /\ o.age \in 1 .. ODOM_MAX_DT THEN Advance(o, vx, wz) ELSE o
         IN  [moved EXCEPT !.vx = vx, !.wz = wz, !.age = 0, !.valid = TRUE, !.tracking = TRUE]

\* The clock moves on by d ticks.
OdometryOlder(o, d) ==
    [o EXCEPT !.age = IF @ + d < ODOM_MAX_DT + 1 THEN @ + d ELSE ODOM_MAX_DT + 1]
=============================================================================
