----------------------------- MODULE Estimates ------------------------------
(***************************************************************************)
(* The two integrators of the calibration image under any sequence of      *)
(* calls its main loop can make: the pose of odometry.c and the trial      *)
(* measurement of calibration_metrics.c, fed by readings that may be       *)
(* invalid or late.  Beside each runs a log of the calls since it was last *)
(* reset.  The code sees a call once and keeps sums and flags; the log     *)
(* keeps the calls, and the properties say what must have been summed.     *)
(* The two share no state, so a behaviour exercises one of them.           *)
(***************************************************************************)
EXTENDS CalibrationMetrics, Odometry, Sequences, FiniteSetsExt, Functions

CONSTANTS
    READINGS,   \* what a sample can be
    REPORTS,    \* the speeds the wheels can report to the odometry
    DELAYS,     \* the times that can pass before a call
    MAX_CALLS   \* bound: calls remembered by a log

ASSUME EstimatesAssumption ==
    /\ READINGS \subseteq Reading
    /\ REPORTS \subseteq [vx : Int, wz : Int, valid : BOOLEAN]
    /\ DELAYS \subseteq Nat \ {0}
    /\ MAX_CALLS \in Nat

VARIABLES
    subject,   \* the integrator this behaviour exercises
    metrics,
    pose,
    moving,    \* motion_enabled, as wheels_get_drive_status reports it
    readings,  \* observer: the samples of this measurement, oldest first
    twists     \* observer: the odometry calls since the pose was reset

estimateVars == <<subject, metrics, pose, moving, readings, twists>>

\* How long a call remained the last of its log, saturated.
LASTED_TOP == METRICS_TOP + ODOM_MAX_DT

EstimatesInit ==
    /\ subject \in {"odometry", "metrics"}
    /\ metrics = NoMetrics
    /\ pose = NoOdometry
    /\ moving = FALSE
    /\ readings = <<>> /\ twists = <<>>

\* The log after d ticks: its last call is as much older.
Waited(log, d) ==
    IF log = <<>> THEN log
    ELSE [log EXCEPT ![Len(log)].lasted = IF @ + d < LASTED_TOP THEN @ + d ELSE LASTED_TOP]

Called(log, d, r, motion) ==
    Append(Waited(log, d), [r |-> r, moving |-> motion, lasted |-> 0])

\* A sample is due.
Sample(d, r) ==
    /\ subject = "metrics" /\ Len(readings) < MAX_CALLS
    /\ metrics' = calibration_metrics_observe(MetricsOlder(metrics, d), r, moving)
    /\ readings' = IF metrics.active THEN Called(readings, d, r, moving) ELSE readings
    /\ UNCHANGED <<subject, pose, moving, twists>>

\* The protocol begins a measurement; it asks for a robot at rest.
Measure(body) ==
    /\ subject = "metrics" /\ ~moving
    /\ metrics' = calibration_metrics_begin(body)
    /\ readings' = <<>>
    /\ UNCHANGED <<subject, pose, moving, twists>>

Drive ==
    /\ subject = "metrics" /\ ~moving
    /\ moving' = TRUE
    /\ UNCHANGED <<subject, metrics, pose, readings, twists>>

\* The motion ends, and with it the measurement once it has seen the motion.
Stop ==
    /\ moving
    /\ moving' = FALSE
    /\ metrics' = IF metrics.motion # Never THEN [metrics EXCEPT !.active = FALSE] ELSE metrics
    /\ UNCHANGED <<subject, pose, readings, twists>>

\* The odometry is due.
Measured(d, t) ==
    /\ subject = "odometry" /\ Len(twists) < MAX_CALLS
    /\ pose' = odometry_update(OdometryOlder(pose, d), t.vx, t.wz, t.valid)
    /\ twists' = Called(twists, d, t, moving)
    /\ UNCHANGED <<subject, metrics, moving, readings>>

\* The reset subscriber of the ROS image (ros.c).
ResetPose ==
    /\ subject = "odometry"
    /\ pose' = odometry_reset_pose(pose)
    /\ twists' = <<>>
    /\ UNCHANGED <<subject, metrics, moving, readings>>

\* New wheel geometry in the calibration image.
NewGeometry ==
    /\ subject = "odometry"
    /\ pose' = NoOdometry
    /\ twists' = <<>>
    /\ UNCHANGED <<subject, metrics, moving, readings>>

EstimatesNext ==
    \/ \E d \in DELAYS, r \in READINGS : Sample(d, r)
    \/ \E body \in BOOLEAN : Measure(body)
    \/ Drive
    \/ Stop
    \/ \E d \in DELAYS, t \in REPORTS : Measured(d, t)
    \/ ResetPose
    \/ NewGeometry

EstimatesSpec == EstimatesInit /\ [][EstimatesNext]_estimateVars

-----------------------------------------------------------------------------
(* What must have been summed, stated on the logs. *)

\* The calls k whose interval, from call k - 1 to k, is known: both readings are
\* valid and no more than `limit` apart.
Intervals(log, limit) ==
    {k \in 2 .. Len(log) : log[k - 1].r.valid /\ log[k].r.valid /\ log[k - 1].lasted <= limit}

Duration(log, S) == SumFunctionOnSet([k \in S |-> log[k - 1].lasted], S)

\* Twice the area under the channel c over the intervals S.
Area(log, c, S) ==
    SumFunctionOnSet([k \in S |-> (log[k - 1].r.speed[c] + log[k].r.speed[c]) * log[k - 1].lasted], S)

\* The readings that saw the motion, up to the k-th.
Moved(log, k) == {j \in 1 .. k : log[j].moving /\ log[j].r.valid}

MotionAt(log, k) ==
    LET t == Duration(log, Min(Moved(log, k)) + 1 .. k)
    IN  IF t < METRICS_TOP THEN t ELSE METRICS_TOP

SteadyAt(log, k) ==
    /\ log[k].r.valid /\ log[k].moving /\ log[k].r.settled
    /\ log[k].r.request.vx = 0 /\ log[k].r.request.wz # 0
    /\ MotionAt(log, k) >= METRICS_SETTLE

\* The intervals of a log that are steady at both ends.
SteadyIntervals(log) ==
    {k \in Intervals(log, METRICS_GAP) : SteadyAt(log, k - 1) /\ SteadyAt(log, k)}

\* The intervals at whose end the motion m measures had 90 % of its request.
Reached(log, m) ==
    {k \in Intervals(log, METRICS_GAP) : log[k].moving /\ Reaches(m, log[k].r)}

\* The sums of a trial cover the intervals between readings no more than 50 ms apart,
\* and nothing else: a missing or late reading leaves a hole in both the areas and the
\* time, it is never bridged.
TotalsAreOfIntervals ==
    LET S == Intervals(readings, METRICS_GAP)
    IN  /\ metrics.elapsed = Duration(readings, S)
        /\ \A c \in Channels : metrics.total[c] = Area(readings, c, S)

\* The ratio that becomes k_icr is taken over intervals that are steady at both ends,
\* two seconds or more into the motion, for both of its sums and for their time.
SteadyIsSteady ==
    LET S == SteadyIntervals(readings)
    IN  /\ metrics.steady_s = Duration(readings, S)
        /\ \A c \in Channels : metrics.steady[c] = Area(readings, c, S)

\* A trial is accepted when it counts no gap (trials.py): that is the case just when
\* every sample was valid and close to the one before, so the sums cover all of it.
GaplessIsComplete ==
    metrics.gaps = 0 <=>
        \A k \in DOMAIN readings :
            readings[k].r.valid /\ (k < Len(readings) => readings[k].lasted <= METRICS_GAP)

\* The response is the time from the motion's first reading to the first one, at the
\* end of a known interval, that has 90 % of the request; Never as long as none has.
ResponseIsFirst ==
    readings # <<>> =>
        LET S == Reached(readings, metrics)
        IN  metrics.response = IF S = {} THEN Never ELSE MotionAt(readings, Min(S))

-----------------------------------------------------------------------------
\* Twice the turn and the distance of the interval that ends with the k-th call.
Turned(log, k) == (log[k - 1].r.wz + log[k].r.wz) * log[k - 1].lasted
Travelled(log, k) == (log[k - 1].r.vx + log[k].r.vx) * log[k - 1].lasted

Turns(log, S) == SumFunctionOnSet([k \in S |-> Turned(log, k)], S)

\* The heading in the middle of that interval, which all the turns before it give.
MidHeading(log, k) ==
    (2 * Turns(log, {j \in Intervals(log, ODOM_MAX_DT) : j < k}) + Turned(log, k)) % (2 * TURN)

\* The way along an axis; `share` is the sine or cosine of a heading.
Way(log, share, S) ==
    SumFunctionOnSet([k \in S |-> Travelled(log, k) * share[MidHeading(log, k)]], S)

\* The pose is the sum over the known intervals since the reset, each driven along the
\* heading in its middle: the heading may wrap round as often as it likes, and a gap or
\* a reset is never driven across.
PoseIsTheSum ==
    LET S == Intervals(twists, ODOM_MAX_DT)
    IN  /\ pose.x = Way(twists, COS, S)
        /\ pose.y = Way(twists, SIN, S)
        /\ pose.yaw \in Headings
        /\ (pose.yaw - Turns(twists, S)) % TURN = 0

-----------------------------------------------------------------------------
(* What makes these invariants inductive: the state left by the last call. *)

Calls(R) == Seq([r : R, moving : BOOLEAN, lasted : 0 .. LASTED_TOP])

EstimatesTypeOK ==
    /\ subject \in {"odometry", "metrics"} /\ moving \in BOOLEAN
    /\ metrics \in MetricsType
    /\ pose \in OdometryType
    /\ readings \in Calls(Reading)
    /\ twists \in Calls([vx : Int, wz : Int, valid : BOOLEAN])

JustCalled(log) == log # <<>> => log[Len(log)].lasted = 0

\* What a measurement in progress remembers of its readings.
MetricsRemember ==
    LET n == Len(readings)
    IN  metrics.active =>
            /\ metrics.previous_valid <=> n > 0 /\ readings[n].r.valid
            /\ metrics.previous_valid =>
                   /\ metrics.previous = readings[n].r.speed
                   /\ metrics.previous_steady <=> SteadyAt(readings, n)
                   /\ metrics.last = 0
            /\ metrics.last = Never <=> \A k \in 1 .. n : ~readings[k].r.valid
            /\ metrics.motion = IF Moved(readings, n) = {} THEN Never ELSE MotionAt(readings, n)
            /\ metrics.response = Never <=> Reached(readings, metrics) = {}

\* What the pose remembers of the last call.
PoseRemembers ==
    LET n == Len(twists)
    IN  /\ pose.tracking <=> n > 0 /\ twists[n].r.valid
        /\ pose.tracking => pose.age = 0 /\ pose.vx = twists[n].r.vx /\ pose.wz = twists[n].r.wz

EstimatesInv ==
    /\ EstimatesTypeOK
    /\ JustCalled(readings) /\ JustCalled(twists)
    /\ MetricsRemember /\ PoseRemembers
    /\ TotalsAreOfIntervals /\ SteadyIsSteady /\ GaplessIsComplete /\ ResponseIsFirst
    /\ PoseIsTheSum
=============================================================================
