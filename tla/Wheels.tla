------------------------------- MODULE Wheels -------------------------------
(***************************************************************************)
(* wheels.c: the four drive motors, their feedback, the brake and the      *)
(* release of motion, with the gyro that gates it.  Each function of the   *)
(* file is an action here; ros.c and the calibration firmware call them    *)
(* from their own main loops.                                              *)
(*                                                                         *)
(* A motor is outside the firmware.  All that is kept of it is what the    *)
(* last frame that reached it told it to do.  One exchange on its bus has  *)
(* four outcomes: the frame is lost; it arrives and the reply is missing   *)
(* or carries an error code; it arrives and the reply reports a wheel at   *)
(* rest; or a wheel that turns.                                            *)
(*                                                                         *)
(* Speeds and the shaped profile are reduced to zero and nonzero.  Times   *)
(* are ages and countdowns in control periods, saturated past the last     *)
(* threshold the code compares them with.  A function runs at one instant. *)
(***************************************************************************)
EXTENDS GyroYawOps

CONSTANTS
    WHEEL_COUNT,
    CONTROL_PERIOD,    \* 1000000 / WHEEL_CONTROL_HZ
    FEEDBACK_MAX_AGE,  \* ODOM_FEEDBACK_MAX_AGE_US
    PROFILE_MAX_DT     \* the longest dt motion_profile_step accepts, 0.1 s

ASSUME WheelsAssumption ==
    /\ WHEEL_COUNT \in Nat \ {0}
    /\ CONTROL_PERIOD \in Nat \ {0}
    /\ FEEDBACK_MAX_AGE \in Nat
    /\ PROFILE_MAX_DT \in Nat
    /\ CONTROL_PERIOD <= PROFILE_MAX_DT

VARIABLES
    motor,           \* what each motor was last told: "velocity" or "brake" (external)
    online,          \* online[i]: the motor answered the probe at boot
    feedback,        \* measured_valid, measured, measured_us of each wheel
    braked,          \* braked[i]
    motion_enabled,
    requested,       \* requested_linear or requested_angular is nonzero
    shaping,         \* the profile of `controller` is not at rest
    update_age,      \* now - last_update_us, or NoUpdate for last_update_us = 0
    update_in,       \* next_update_us - now, zero once it is due
    gyro             \* the estimator of gyro_yaw.c

wheelsVars == <<motor, online, feedback, braked, motion_enabled, requested,
                shaping, update_age, update_in, gyro>>

Wheel == 0 .. WHEEL_COUNT - 1
NoUpdate == -1
Feedback == [valid : BOOLEAN, moving : BOOLEAN, age : 0 .. FEEDBACK_MAX_AGE + 1]
NoFeedback == [valid |-> FALSE, moving |-> FALSE, age |-> 0]

\* What one exchange on a motor's bus can come to.
Outcome == {"lost", "failed", "still", "moving"}
Outcomes == [Wheel -> Outcome]
Delivered(o) == o # "lost"
Answered(o) == o \in {"still", "moving"}

WheelsTypeOK ==
    /\ motor \in [Wheel -> {"velocity", "brake"}]
    /\ online \in [Wheel -> BOOLEAN]
    /\ feedback \in [Wheel -> Feedback]
    /\ braked \in [Wheel -> BOOLEAN]
    /\ motion_enabled \in BOOLEAN
    /\ requested \in BOOLEAN
    /\ shaping \in BOOLEAN
    /\ update_age \in {NoUpdate} \cup 0 .. PROFILE_MAX_DT + 1
    /\ update_in \in 0 .. CONTROL_PERIOD
    /\ gyro \in GyroType

Online == {i \in Wheel : online[i]}

\* Mutant: the reply is not looked at.
save_feedback_Unchecked(o) == [valid |-> TRUE, moving |-> o = "moving", age |-> 0]

\* save_feedback: a wheel's sample is valid only after an answer without an error code.
\* The speed and the time of an invalid sample are never used: they are dropped here.
save_feedback(o) == [valid |-> Answered(o), moving |-> o = "moving", age |-> 0]

Fresh(i) == online[i] /\ feedback[i].valid /\ feedback[i].age <= FEEDBACK_MAX_AGE

\* wheels_measured_twist succeeds.
MeasuredTwist == \A i \in Wheel : Fresh(i)

\* Mutant: a wheel already flagged as braked is not sent its brake again.
Exchange_OnlyOnce(S, mode, out) ==
    LET T == {i \in S : mode # "brake" \/ ~braked[i]}
    IN  /\ motor' = [i \in Wheel |-> IF i \in T /\ Delivered(out[i]) THEN mode ELSE motor[i]]
        /\ feedback' = [i \in Wheel |-> IF i \in T THEN save_feedback(out[i]) ELSE feedback[i]]

\* A frame of kind `mode` to each wheel of S, and the reply of each saved.
Exchange(S, mode, out) ==
    /\ motor' = [i \in Wheel |-> IF i \in S /\ Delivered(out[i]) THEN mode ELSE motor[i]]
    /\ feedback' = [i \in Wheel |-> IF i \in S THEN save_feedback(out[i]) ELSE feedback[i]]

\* What wheels_brake does to the firmware's own state, over all the wheels.
StopMotion ==
    /\ motion_enabled' = FALSE
    /\ requested' = FALSE
    /\ shaping' = FALSE
    /\ update_age' = NoUpdate
    /\ update_in' = CONTROL_PERIOD
    /\ braked' = [i \in Wheel |-> online[i] \/ braked[i]]

\* `for (i = 0; i < WHEEL_COUNT; i++) wheels_brake(i)`, the only way it is called.
BrakeAll(out) ==
    /\ StopMotion
    /\ Exchange(Online, "brake", out)
    /\ UNCHANGED online

\* Mutant: the wheels are not asked for.
SetVelocityAccepts_GyroOnly(cmd) == cmd # "malformed" /\ GyroFresh(gyro)

\* wheels_set_velocity accepts a command that is finite, with a fresh yaw rate
\* and a fresh answer of all wheels; otherwise it changes nothing.
SetVelocityAccepts(cmd) == cmd # "malformed" /\ GyroFresh(gyro) /\ MeasuredTwist

wheels_set_velocity(cmd) ==
    /\ SetVelocityAccepts(cmd)
    /\ requested' = (cmd = "move")
    /\ update_age' = IF motion_enabled THEN update_age ELSE NoUpdate
    /\ motion_enabled' = TRUE
    /\ braked' = [i \in Wheel |-> FALSE]
    /\ UNCHANGED <<motor, online, feedback, shaping, update_in, gyro>>

\* Mutant: the estimator is restarted under a moving robot.
wheels_restart_gyro_calibration_Moving(out) ==
    /\ gyro' = gyro_yaw_begin
    /\ UNCHANGED <<motor, online, feedback, braked, motion_enabled, requested,
                   shaping, update_age, update_in>>

wheels_restart_gyro_calibration(out) ==
    /\ BrakeAll(out)
    /\ gyro' = gyro_yaw_begin

\* wheels_observe_gyro.  sample.valid: imu_read succeeded; sample.quiet: all gyro axes
\* and the specific force are within the stationary limits.
wheels_observe_gyro(sample) ==
    LET stationary == /\ sample.valid /\ sample.quiet
                      /\ \A i \in Wheel : Fresh(i) /\ ~feedback[i].moving
    IN  /\ gyro' = gyro_yaw_observe(gyro, sample.rate, sample.valid, stationary)
        /\ UNCHANGED <<motor, online, feedback, braked, motion_enabled, requested,
                       shaping, update_age, update_in>>

-----------------------------------------------------------------------------
(* wheels_update, the control step of the main loop. *)

NotDue ==
    /\ \/ update_in > 0
       \/ motion_enabled /\ update_age = 0
    /\ UNCHANGED wheelsVars

\* Motion disabled: the brake frame is repeated, and doubles as a feedback poll.
RepeatBrake(out) ==
    /\ update_in = 0
    /\ ~motion_enabled
    /\ update_in' = CONTROL_PERIOD
    /\ Exchange(Online, "brake", out)
    /\ UNCHANGED <<online, braked, motion_enabled, requested, shaping, update_age, gyro>>

\* dt of this step.  A robot that was told zero and came to rest may have been
\* left alone for any time.
ControlDt == IF update_age = NoUpdate \/ (~requested /\ ~shaping)
             THEN CONTROL_PERIOD ELSE update_age

ControlDue == update_in = 0 /\ motion_enabled /\ update_age # 0

\* Mutant: a robot told to stand is not asked whether it does.
ControlOk_IdleBlind ==
    /\ GyroFresh(gyro)
    /\ requested \/ shaping => MeasuredTwist
    /\ ControlDt <= PROFILE_MAX_DT

\* Mutant: the yaw rate is used however old it is.
ControlOk_StaleGyro == MeasuredTwist /\ ControlDt <= PROFILE_MAX_DT

\* The gyro, the feedback and glide_update (which refuses a gap) all agree.
ControlOk == GyroFresh(gyro) /\ MeasuredTwist /\ ControlDt <= PROFILE_MAX_DT

\* The wheels the send loop talks to, and the first that does not answer.
Sendable == {i \in Wheel : online[i] /\ ~braked[i]}
Silent(sent) == {i \in Sendable : ~Answered(sent[i])}

\* Something the step needs is stale, or the gap was too long: brake all.
BrakeStale(out) ==
    /\ ControlDue
    /\ ~ControlOk
    /\ BrakeAll(out)
    /\ UNCHANGED gyro

\* Every wheel gets its setpoint and answers.  `at_rest`: the profile is at rest after the step.
SendSpeeds(sent, at_rest) ==
    /\ ControlDue
    /\ ControlOk
    /\ Silent(sent) = {}
    /\ ~requested /\ ~shaping => at_rest
    /\ shaping' = ~at_rest
    /\ update_age' = 0
    /\ update_in' = CONTROL_PERIOD
    /\ Exchange(Sendable, "velocity", sent)
    /\ UNCHANGED <<online, braked, motion_enabled, requested, gyro>>

\* Mutant: only the wheels that did not answer are braked.
SendFails_BrakesSilent(sent, out) ==
    /\ ControlDue
    /\ ControlOk
    /\ Silent(sent) # {}
    /\ motor' = [i \in Wheel |->
                    IF i \in Silent(sent) /\ Delivered(out[i]) THEN "brake"
                    ELSE IF i \in Sendable /\ Delivered(sent[i]) THEN "velocity" ELSE motor[i]]
    /\ feedback' = [i \in Wheel |-> save_feedback(IF i \in Silent(sent) THEN out[i] ELSE sent[i])]
    /\ StopMotion
    /\ UNCHANGED <<online, gyro>>

\* A wheel does not answer: those before it and itself were sent a setpoint,
\* those after it were not; then all are braked.
SendFails(sent, out) ==
    /\ ControlDue
    /\ ControlOk
    /\ Silent(sent) # {}
    /\ LET reached == {i \in Sendable : \A j \in Silent(sent) : i <= j}
       IN  motor' = [i \in Wheel |->
                        IF online[i] /\ Delivered(out[i]) THEN "brake"
                        ELSE IF i \in reached /\ Delivered(sent[i]) THEN "velocity"
                        ELSE motor[i]]
    /\ feedback' = [i \in Wheel |-> IF online[i] THEN save_feedback(out[i]) ELSE feedback[i]]
    /\ StopMotion
    /\ UNCHANGED <<online, gyro>>

wheels_update(sent, out, at_rest) ==
    \/ NotDue
    \/ RepeatBrake(out)
    \/ BrakeStale(out)
    \/ SendSpeeds(sent, at_rest)
    \/ SendFails(sent, out)

-----------------------------------------------------------------------------
(* What only the calibration firmware calls. *)

\* d.at_rest of wheels_get_drive_status; `slow`: the profile is within its 1e-4 of rest.
AtRest(slow) ==
    /\ shaping => slow
    /\ \A i \in Wheel : Fresh(i) /\ ~feedback[i].moving

\* wheels_configure_calibration accepts settings at rest only; it resets the profile and,
\* for a new filter, the gyro.
wheels_configure_calibration(new_lpf, out) ==
    /\ AtRest(TRUE) /\ ~motion_enabled
    /\ \/ /\ ~new_lpf
          /\ shaping' = FALSE
          /\ UNCHANGED <<motor, online, feedback, braked, motion_enabled, requested,
                         update_age, update_in, gyro>>
       \/ new_lpf /\ wheels_restart_gyro_calibration(out)

\* Mutant: a motor that took its mode is believed to be braked.
wheels_retry_offline_TrustsMode(answered, found, told, out) ==
    LET Offline == {i \in Wheel : ~online[i]}
    IN  /\ ~motion_enabled
        /\ found \subseteq answered /\ answered \subseteq Offline
        /\ \A i \in Offline : told[i] = "velocity" => i \in answered \/ motor[i] = "velocity"
        /\ motor' = [i \in Wheel |->
               IF i \in answered /\ Delivered(out[i]) THEN "brake"
               ELSE IF i \in Offline THEN told[i] ELSE motor[i]]
        /\ online' = [i \in Wheel |-> online[i] \/ i \in found]
        /\ braked' = [i \in Wheel |-> braked[i] \/ i \in answered]
        /\ feedback' = [i \in Wheel |-> IF i \in answered THEN save_feedback("still") ELSE feedback[i]]
        /\ UNCHANGED <<motion_enabled, requested, shaping, update_age, update_in, gyro>>

\* wheels_retry_offline: to each wheel that is offline a brake frame; to one that
\* answers (`answered`) the mode frame, and it is online if it reports the mode
\* (`found`); then a brake frame with feedback.  `told`: what the frames before that
\* last one left an offline wheel at.
wheels_retry_offline(answered, found, told, out) ==
    LET Offline == {i \in Wheel : ~online[i]}
    IN  /\ ~motion_enabled
        /\ found \subseteq answered /\ answered \subseteq Offline
        /\ \A i \in Offline : told[i] = "velocity" => i \in answered \/ motor[i] = "velocity"
        /\ motor' = [i \in Wheel |->
               IF i \in answered /\ Delivered(out[i]) THEN "brake"
               ELSE IF i \in Offline THEN told[i] ELSE motor[i]]
        /\ online' = [i \in Wheel |-> online[i] \/ i \in found]
        /\ braked' = [i \in Wheel |-> braked[i] \/ i \in answered]
        /\ feedback' = [i \in Wheel |->
               IF i \in answered THEN save_feedback(out[i]) ELSE feedback[i]]
        /\ UNCHANGED <<motion_enabled, requested, shaping, update_age, update_in, gyro>>

-----------------------------------------------------------------------------
(* Power-up.  A motor keeps what it was last told while the board restarts. *)

WheelsInit ==
    /\ motor \in [Wheel -> {"velocity", "brake"}]
    /\ online = [i \in Wheel |-> FALSE]
    /\ feedback = [i \in Wheel |-> NoFeedback]
    /\ braked = [i \in Wheel |-> FALSE]
    /\ motion_enabled = FALSE
    /\ requested = FALSE
    /\ shaping = FALSE
    /\ update_age = NoUpdate
    /\ update_in = 0
    /\ gyro = gyro_yaw_begin

\* Everything in RAM is lost; what becomes of the motors is the caller's to say.
WheelsReset ==
    /\ online' = [i \in Wheel |-> FALSE]
    /\ feedback' = [i \in Wheel |-> NoFeedback]
    /\ braked' = [i \in Wheel |-> FALSE]
    /\ motion_enabled' = FALSE
    /\ requested' = FALSE
    /\ shaping' = FALSE
    /\ update_age' = NoUpdate
    /\ update_in' = 0
    /\ gyro' = gyro_yaw_begin

\* wheels_begin.  `found`: the motors that answered the probe; `set`: those of them
\* that got the mode frame, which puts a motor in velocity mode.
wheels_begin(found, set) ==
    /\ online' = [i \in Wheel |-> i \in found]
    /\ braked' = [i \in Wheel |-> i \in found]
    /\ motor' = [i \in Wheel |-> IF i \in set THEN "velocity" ELSE motor[i]]
    /\ gyro' = gyro_yaw_begin
    /\ UNCHANGED <<feedback, motion_enabled, requested, shaping, update_age, update_in>>

\* One tick of the clock.
WheelsOlder ==
    /\ feedback' = [i \in Wheel |->
           IF feedback[i].valid
           THEN [feedback[i] EXCEPT !.age = Older(@, FEEDBACK_MAX_AGE + 1)]
           ELSE feedback[i]]
    /\ update_age' = IF update_age = NoUpdate THEN NoUpdate
                     ELSE Older(update_age, PROFILE_MAX_DT + 1)
    /\ update_in' = IF update_in > 0 THEN update_in - 1 ELSE 0
    /\ gyro' = GyroOlder(gyro)
    /\ UNCHANGED <<motor, online, braked, motion_enabled, requested, shaping>>

-----------------------------------------------------------------------------
(* What holds of the drive whichever main loop calls it. *)

\* Between two calls of the loop the wheels move together or not at all: while
\* motion is enabled every wheel is online, unbraked and answered its last frame.
WheelsMoveTogether ==
    motion_enabled => \A i \in Wheel : online[i] /\ ~braked[i] /\ feedback[i].valid

\* A stopped drive knows which motors it stopped: with motion disabled, a wheel
\* whose last exchange was answered is in electric brake, although any brake frame
\* may be lost, at boot and when a send loop fails halfway included.
StoppedMeansBraked ==
    ~motion_enabled => \A i \in Wheel : feedback[i].valid => motor[i] = "brake"

\* The bias that odometry and control rely on stands still once it is measured: no sample,
\* gap or read failure moves it, and it is forgotten, as a whole, of a stopped drive only.
BiasIsFrozen ==
    [][gyro.calibrated =>
          \/ /\ gyro'.calibrated
             /\ gyro'.window.sum = gyro.window.sum /\ gyro'.window.samples = gyro.window.samples
          \/ gyro' = gyro_yaw_begin /\ ~motion_enabled']_gyro

\* A stall of the loop ends the motion, moving or idle: no control step sends setpoints
\* later after the one before than feedback may be old.  While the drive is idle its dt is
\* nominal and shows no gap; what does is the feedback, which nothing but a control step
\* renews in a motion, however many commands were accepted since.
StallIsNoticed ==
    [][motion_enabled /\ motion_enabled' /\ update_age # NoUpdate /\ update_age # 0
           /\ update_age' = 0
       => update_age <= FEEDBACK_MAX_AGE]_update_age

\* Why: in a motion the feedback of every wheel is at least as old as the last control
\* step, as far as its age is followed.
FeedbackClock ==
    motion_enabled =>
        \A i \in Wheel : \/ feedback[i].age >= update_age
                         \/ feedback[i].age = FEEDBACK_MAX_AGE + 1

\* What keeps itself true through every function of wheels.c.
WheelsInv ==
    /\ WheelsTypeOK
    /\ motion_enabled => gyro.calibrated
    /\ WheelsMoveTogether
    /\ StoppedMeansBraked
=============================================================================
