----------------------------- MODULE Publication -----------------------------
(***************************************************************************)
(* The sensor side of the ROS firmware: imu.c with its retry, and the      *)
(* sampling, the wheel odometry, the recalibration and reset subscribers   *)
(* and the two 50 Hz publishers of ros.c.  RosLoop models the drive side   *)
(* of the same loop; what the wheels tell the odometry and whether the     *)
(* robot stands still are free here.  A stamp is as old as what it is of:  *)
(* ODOM_MAX_DT_US limits both an interval and the age of a message.        *)
(*                                                                         *)
(* pc is the part of the loop that comes next, and time may pass between   *)
(* any two parts, up to MAX_LOOP ticks in one turn.  Times are ages and    *)
(* countdowns.  Boot ends with imu_begin, in either outcome.               *)
(***************************************************************************)
EXTENDS GyroYawOps, Odometry

CONSTANTS
    SAMPLE_PERIOD,   \* 1000000 / IMU_SAMPLE_HZ
    IMU_PERIOD,      \* 1000000 / IMU_HZ
    ODOM_PERIOD,     \* 1000000 / ODOM_HZ
    RETRY,           \* 1 s, between two attempts to set the sensor up
    SYNC_GAP,        \* assumed: shortest time between two synchronisations (probes go out at 1 Hz)
    SYNC_TIMEOUT,    \* TIME_SYNC_TIMEOUT_MS
    MAX_LOOP,        \* assumed: longest turn of the loop
    RATES,           \* the yaw rates a sample can report
    TWISTS           \* the speeds the front wheels can report

ASSUME PublicationAssumption ==
    /\ SAMPLE_PERIOD \in Nat \ {0}
    /\ MAX_LOOP \in Nat
    /\ IMU_PERIOD \in Nat /\ SAMPLE_PERIOD + MAX_LOOP <= IMU_PERIOD
    /\ ODOM_PERIOD \in Nat
    /\ RETRY \in Nat
    /\ SYNC_GAP \in Nat
    /\ SYNC_TIMEOUT \in Nat
    /\ RATES \subseteq Int
    /\ TWISTS \subseteq [vx : Int, wz : Int]

VARIABLES
    sensor,          \* the LSM6DSOX answers on the bus (external)
    front,           \* wheels_odometry_twist would succeed (external)
    sensor_ready,
    retry_in,        \* next_retry_us - now
    gyro,            \* the estimator, owned by wheels.c
    latest_valid,    \* latest_imu_valid
    latest_age,      \* now - latest_imu_us
    odom,            \* the wheel pose
    sync_age,        \* now - last_sync_us of ros_clock, or NoSync
    sample_in,       \* next_sample_us - now
    odom_in, imu_in, \* odom_due - now, imu_due - now
    due,             \* the publishers this turn has found due
    pc,
    loop_age,        \* time since the turn began (observer, bounds Tick)
    sent,            \* observer: what the last step published
    imu_sent,        \* observer: latest_imu has been published
    odom_sent,       \* observer: the last odometry sample has been published
    recalibrated     \* observer: a recalibration was asked for since latest_imu was taken

world == <<sensor, front>>
timers == <<sample_in, odom_in, imu_in>>
imuVars == <<latest_valid, latest_age, imu_sent, recalibrated>>
odomVars == <<odom, odom_sent>>
vars == <<world, sensor_ready, retry_in, gyro, imuVars, odomVars, sync_age, timers, due,
          pc, loop_age, sent>>

NoSync == -1
SYNC_TOP == SYNC_TIMEOUT + ODOM_MAX_DT + 1   \* where sync_age saturates
Samples == [quiet : BOOLEAN, rate : RATES]

TypeOK ==
    /\ sensor \in BOOLEAN /\ front \in BOOLEAN /\ sensor_ready \in BOOLEAN
    /\ retry_in \in 0 .. RETRY
    /\ gyro \in GyroType
    /\ latest_valid \in BOOLEAN /\ latest_age \in 0 .. ODOM_MAX_DT + 1
    /\ odom \in OdometryType
    /\ sync_age \in {NoSync} \cup 0 .. SYNC_TOP
    /\ sample_in \in 0 .. SAMPLE_PERIOD
    /\ odom_in \in 0 .. ODOM_PERIOD /\ imu_in \in 0 .. IMU_PERIOD
    /\ due \subseteq {"odom", "imu"}
    /\ pc \in {"spin", "sample", "odometry", "timers", "publish", "retry"}
    /\ loop_age \in 0 .. MAX_LOOP
    /\ sent \in {"none", "odom", "imu"}
    /\ imu_sent \in BOOLEAN /\ odom_sent \in BOOLEAN /\ recalibrated \in BOOLEAN

Init ==
    /\ sensor \in BOOLEAN /\ front = FALSE
    /\ sensor_ready \in BOOLEAN /\ (sensor_ready => sensor)
    /\ retry_in = RETRY
    /\ gyro = gyro_yaw_begin
    /\ latest_valid = FALSE /\ latest_age = 0
    /\ odom = NoOdometry
    /\ sync_age = NoSync
    /\ sample_in = 0 /\ odom_in = 0 /\ imu_in = 0
    /\ due = {}
    /\ pc = "spin"
    /\ loop_age = 0
    /\ sent = "none" /\ imu_sent = FALSE /\ odom_sent = FALSE /\ recalibrated = FALSE

-----------------------------------------------------------------------------
(* Callbacks, run from easyp_spin_once. *)

on_odom_reset ==
    /\ pc = "spin"
    /\ odom' = odometry_reset_pose(odom)
    /\ sent' = "none"
    /\ UNCHANGED <<world, sensor_ready, retry_in, gyro, imuVars, odom_sent, sync_age,
                   timers, due, pc, loop_age>>

\* What wheels_restart_gyro_calibration does to the gyro; its brake is in RosLoop.
on_gyro_calibrate ==
    /\ pc = "spin"
    /\ gyro' = gyro_yaw_begin
    /\ recalibrated' = TRUE
    /\ sent' = "none"
    /\ UNCHANGED <<world, sensor_ready, retry_in, latest_valid, latest_age, imu_sent,
                   odomVars, sync_age, timers, due, pc, loop_age>>

\* on_time_sync with an answer that TimeSync's Accept takes.
on_time_sync ==
    /\ pc = "spin"
    /\ sync_age # NoSync => sync_age >= SYNC_GAP
    /\ sync_age' = 0
    /\ sent' = "none"
    /\ UNCHANGED <<world, sensor_ready, retry_in, gyro, imuVars, odomVars, timers, due,
                   pc, loop_age>>

SpinDone ==
    /\ pc = "spin"
    /\ pc' = "sample"
    /\ sent' = "none"
    /\ UNCHANGED <<world, sensor_ready, retry_in, gyro, imuVars, odomVars, sync_age,
                   timers, due, loop_age>>

-----------------------------------------------------------------------------
(* The rest of ros_update. *)

\* wheels_yaw_rate at the time of latest_imu, which is the estimator's last sample.
YawRateKnown(g) == g.calibrated /\ g.sample_valid

NotSampled ==
    /\ pc = "sample"
    /\ sample_in > 0
    /\ pc' = "odometry"
    /\ sent' = "none"
    /\ UNCHANGED <<world, sensor_ready, retry_in, gyro, imuVars, odomVars, sync_age,
                   timers, due, loop_age>>

\* imu_read, the estimator, and the sample kept only with a calibrated rate in it.
\* `read`: the sensor is set up and answered; it may fail at any time.
sample_imu(sample, read) ==
    /\ pc = "sample"
    /\ sample_in = 0
    /\ pc' = "odometry"
    /\ read => sensor_ready /\ sensor
    /\ sample_in' = SAMPLE_PERIOD
    /\ gyro' = gyro_yaw_observe(gyro, sample.rate, read, read /\ sample.quiet)
    /\ latest_valid' = (read /\ YawRateKnown(gyro'))
    /\ latest_age' = 0
    /\ imu_sent' = FALSE /\ recalibrated' = FALSE
    /\ sent' = "none"
    /\ UNCHANGED <<world, sensor_ready, retry_in, odomVars, sync_age, odom_in, imu_in, due,
                   loop_age>>

\* Mutant: missing inputs leave the last sample standing.
update_odometry_KeepsLast ==
    /\ pc = "odometry"
    /\ pc' = "timers"
    /\ \E t \in TWISTS : odom' = IF front THEN odometry_update(odom, t.vx, t.wz, TRUE) ELSE odom
    /\ odom_sent' = (odom_sent /\ ~front)
    /\ sent' = "none"
    /\ UNCHANGED <<world, sensor_ready, retry_in, gyro, imuVars, sync_age, timers, due,
                   loop_age>>

update_odometry ==
    /\ pc = "odometry"
    /\ pc' = "timers"
    /\ \E t \in TWISTS : odom' = odometry_update(odom, t.vx, t.wz, front)
    /\ odom_sent' = (odom_sent /\ ~front)
    /\ sent' = "none"
    /\ UNCHANGED <<world, sensor_ready, retry_in, gyro, imuVars, sync_age, timers, due,
                   loop_age>>

\* Mutant: a deadline is pushed on by every look at it.
Timers_Rearmed ==
    /\ pc = "timers"
    /\ pc' = "publish"
    /\ due' = {p \in {"odom", "imu"} : IF p = "odom" THEN odom_in = 0 ELSE imu_in = 0}
    /\ odom_in' = ODOM_PERIOD
    /\ imu_in' = IMU_PERIOD
    /\ sent' = "none"
    /\ UNCHANGED <<world, sensor_ready, retry_in, gyro, imuVars, odomVars, sync_age,
                   sample_in, loop_age>>

\* One reading of the clock decides what is due in this turn.
Timers ==
    /\ pc = "timers"
    /\ pc' = "publish"
    /\ due' = {p \in {"odom", "imu"} : IF p = "odom" THEN odom_in = 0 ELSE imu_in = 0}
    /\ odom_in' = IF odom_in = 0 THEN ODOM_PERIOD ELSE odom_in
    /\ imu_in' = IF imu_in = 0 THEN IMU_PERIOD ELSE imu_in
    /\ sent' = "none"
    /\ UNCHANGED <<world, sensor_ready, retry_in, gyro, imuVars, odomVars, sync_age,
                   sample_in, loop_age>>

\* stamp_at(now - age): after the last synchronisation, and not too long after.
StampAt(age) == sync_age # NoSync /\ sync_age - age \in 0 .. SYNC_TIMEOUT - 1

OdometryFit == odom.valid /\ odom.age <= ODOM_MAX_DT /\ front /\ StampAt(odom.age)

publish_odometry ==
    /\ pc = "publish"
    /\ "odom" \in due
    /\ due' = due \ {"odom"}
    /\ IF OdometryFit THEN sent' = "odom" /\ odom_sent' = TRUE
                      ELSE sent' = "none" /\ UNCHANGED odom_sent
    /\ UNCHANGED <<world, sensor_ready, retry_in, gyro, imuVars, odom, sync_age, timers,
                   pc, loop_age>>

\* Mutant: the estimator is not asked again.
ImuFit_AsSampled ==
    StampAt(0) /\ latest_valid /\ latest_age <= ODOM_MAX_DT /\ StampAt(latest_age)

ImuFit ==
    /\ StampAt(0)
    /\ latest_valid /\ YawRateKnown(gyro)
    /\ latest_age <= ODOM_MAX_DT
    /\ StampAt(latest_age)

publish_imu ==
    /\ pc = "publish"
    /\ due = {"imu"}
    /\ due' = {}
    /\ IF ImuFit THEN sent' = "imu" /\ imu_sent' = TRUE
                 ELSE sent' = "none" /\ UNCHANGED imu_sent
    /\ UNCHANGED <<world, sensor_ready, retry_in, gyro, latest_valid, latest_age,
                   recalibrated, odomVars, sync_age, timers, pc, loop_age>>

Published ==
    /\ pc = "publish"
    /\ due = {}
    /\ pc' = "retry"
    /\ sent' = "none"
    /\ UNCHANGED <<world, sensor_ready, retry_in, gyro, imuVars, odomVars, sync_age,
                   timers, due, loop_age>>

-----------------------------------------------------------------------------
(* imu_update, at the end of main's loop. *)

\* Mutant: the retry deadline is set anew although no attempt was made.
imu_update_Postponed(ok) ==
    /\ pc = "retry"
    /\ pc' = "spin"
    /\ loop_age' = 0
    /\ ok => sensor
    /\ sensor_ready' = (sensor_ready \/ (retry_in = 0 /\ ok))
    /\ retry_in' = RETRY
    /\ sent' = "none"
    /\ UNCHANGED <<world, gyro, imuVars, odomVars, sync_age, timers, due>>

\* `ok`: the sensor answers at one of its two addresses and takes its settings.
imu_update(ok) ==
    /\ pc = "retry"
    /\ pc' = "spin"
    /\ loop_age' = 0
    /\ ok => sensor
    /\ IF ~sensor_ready /\ retry_in = 0
       THEN sensor_ready' = ok /\ retry_in' = RETRY
       ELSE UNCHANGED <<sensor_ready, retry_in>>
    /\ sent' = "none"
    /\ UNCHANGED <<world, gyro, imuVars, odomVars, sync_age, timers, due>>

-----------------------------------------------------------------------------
(* The world *)

\* The sensor or a front wheel is lost, or answers again.
Change ==
    /\ sensor' \in BOOLEAN /\ front' \in BOOLEAN
    /\ world' # world
    /\ sent' = "none"
    /\ UNCHANGED <<sensor_ready, retry_in, gyro, imuVars, odomVars, sync_age, timers, due,
                   pc, loop_age>>

Down(t) == IF t > 0 THEN t - 1 ELSE 0

Tick ==
    /\ loop_age < MAX_LOOP
    /\ loop_age' = loop_age + 1
    /\ gyro' = GyroOlder(gyro)
    /\ latest_age' = Older(latest_age, ODOM_MAX_DT + 1)
    /\ odom' = OdometryOlder(odom, 1)
    /\ sync_age' = IF sync_age = NoSync THEN NoSync ELSE Older(sync_age, SYNC_TOP)
    /\ sample_in' = Down(sample_in) /\ odom_in' = Down(odom_in) /\ imu_in' = Down(imu_in)
    /\ retry_in' = Down(retry_in)
    /\ sent' = "none"
    /\ UNCHANGED <<world, sensor_ready, latest_valid, imu_sent, recalibrated, odom_sent,
                   due, pc>>

ReadOk == \E sample \in Samples : sample_imu(sample, TRUE)

Next ==
    \/ on_odom_reset \/ on_gyro_calibrate \/ on_time_sync
    \/ SpinDone
    \/ NotSampled
    \/ \E sample \in Samples, read \in BOOLEAN : sample_imu(sample, read)
    \/ update_odometry
    \/ Timers
    \/ publish_odometry \/ publish_imu \/ Published
    \/ \E ok \in BOOLEAN : imu_update(ok)
    \/ Change
    \/ Tick

Spec == Init /\ [][Next]_vars

-----------------------------------------------------------------------------
(* What subscribers may rely on. *)

\* No sample is published twice: with four timers that drift against each other, failed
\* reads and lost wheels, every message is of a sample its predecessors were not of.
SamplesSentOnce ==
    [][/\ sent' = "imu" => ~imu_sent
       /\ sent' = "odom" => ~odom_sent]_vars

\* No message carries a yaw rate corrected with a bias that a recalibration has since
\* discarded, also when the request comes in after the sample was taken.
RateIsOfThisCalibration == [][sent' = "imu" => ~recalibrated]_vars

-----------------------------------------------------------------------------
(* Liveness.  The loop takes part after part, time passes, and a sensor that *)
(* answers is not refused for ever.                                          *)

SetUp ==
    /\ ~sensor_ready /\ retry_in = 0
    /\ imu_update(TRUE)

Fairness ==
    /\ WF_vars(SpinDone)
    /\ WF_vars(NotSampled \/ \E sample \in Samples, read \in BOOLEAN : sample_imu(sample, read))
    /\ WF_vars(update_odometry)
    /\ WF_vars(Timers)
    /\ WF_vars(publish_odometry \/ publish_imu \/ Published)
    /\ WF_vars(\E ok \in BOOLEAN : imu_update(ok))
    /\ SF_vars(SetUp)
    /\ WF_vars(Tick)

FairSpec == Spec /\ Fairness

HostAnswers == []<>(sync_age = 0)

\* imu.h:46, "Retry configuration of an offline LSM6DSOX once per second": a sensor that
\* was away at boot and answers from some time on is set up in the end.
SensorComesOnline == <>[]sensor => <>[]sensor_ready

\* ros.c:215-216, publication resumes "automatically after the host helper supplies a
\* fresh, bounded-delay synchronization sample": while the host answers now and then,
\* IMU messages go out again and again as long as the yaw rate stays known, and odometry
\* as long as the front wheels answer, although a sample taken before a synchronisation
\* is never stamped by it, the pose is reset at will and one turn in some finds none due.
PublicationResumes ==
    HostAnswers => /\ <>[]YawRateKnown(gyro) => []<>(sent = "imu")
                   /\ <>[]front => []<>(sent = "odom")

-----------------------------------------------------------------------------
(* What makes the safety properties inductive. *)

\* A sample that was published is gone, or void, when the odometry is due again.
OdometryUnsent ==
    pc = "timers" \/ (pc = "publish" /\ "odom" \in due) => ~odom_sent \/ ~odom.valid

\* The next sample comes before the next IMU message, and with a whole turn to spare.
SampleFirst == sample_in = 0 \/ imu_in >= sample_in + MAX_LOOP

ImuUnsent ==
    /\ imu_sent => SampleFirst
    /\ imu_sent /\ pc \in {"odometry", "timers"} => imu_in + loop_age > MAX_LOOP
    /\ pc = "publish" /\ "imu" \in due => ~imu_sent /\ SampleFirst

IInv ==
    /\ TypeOK
    /\ OdometryUnsent
    /\ ImuUnsent
    /\ recalibrated => ~gyro.calibrated
=============================================================================
