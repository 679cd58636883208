------------------------------ MODULE RosLoop -------------------------------
(***************************************************************************)
(* The ROS firmware's main loop (main.c, ros.c) driving Wheels: the boot   *)
(* sequence, the command subscriber with its watchdog, the gyro sampling   *)
(* and the restart on a silent host.                                       *)
(*                                                                         *)
(* One loop runs on one core, so a callback never interrupts a function:   *)
(* pc says which call of the loop comes next, each call is one action, and *)
(* the clock ticks between calls.  The one assumption about speed is       *)
(* MAX_LOOP: the loop comes back to the watchdog within that many ticks.   *)
(***************************************************************************)
EXTENDS Wheels

CONSTANTS
    COMMAND_TIMEOUT,   \* COMMAND_TIMEOUT_MS
    WATCHDOG_PERIOD,   \* 1000000 / COMMAND_WATCHDOG_HZ
    SAMPLE_PERIOD,     \* 1000000 / IMU_SAMPLE_HZ
    HOST_TIMEOUT,      \* ROS_HOST_RESTART_TIMEOUT_MS
    MAX_LOOP,          \* assumed: longest time between two watchdog calls
    RATES              \* the yaw rates a sample can report

ASSUME RosAssumption ==
    /\ COMMAND_TIMEOUT \in Nat \ {0}
    /\ WATCHDOG_PERIOD \in Nat
    /\ WATCHDOG_PERIOD <= COMMAND_TIMEOUT
    /\ SAMPLE_PERIOD \in Nat
    /\ HOST_TIMEOUT \in Nat
    /\ MAX_LOOP \in Nat
    /\ RATES \subseteq Int

VARIABLES
    pc,            \* the next call of main()
    have_cmd_vel,
    cmd_age,       \* now - last_cmd_vel_us
    brake_in,      \* next_brake_us - now, zero once it is due
    sample_in,     \* next_sample_us - now
    host_seen,
    host_age,      \* now - last_host_response_us
    loop_age       \* time since the watchdog last ran (observer, bounds Tick)

rosVars == <<have_cmd_vel, cmd_age, brake_in, sample_in, host_seen, host_age, loop_age>>
vars == <<wheelsVars, pc, rosVars>>

Booting == {"wheels_begin", "brake", "ros_begin", "fatal"}
Looping == {"spin", "watchdog", "sample", "host", "wheels"}
Samples == [valid : BOOLEAN, quiet : BOOLEAN, rate : RATES]
Commands == {"malformed", "zero", "move"}
COMMAND_AGE_MAX == COMMAND_TIMEOUT + MAX_LOOP   \* where cmd_age saturates

TypeOK ==
    /\ WheelsTypeOK
    /\ pc \in Booting \cup Looping
    /\ have_cmd_vel \in BOOLEAN
    /\ cmd_age \in 0 .. COMMAND_AGE_MAX
    /\ brake_in \in 0 .. WATCHDOG_PERIOD
    /\ sample_in \in 0 .. SAMPLE_PERIOD
    /\ host_seen \in BOOLEAN
    /\ host_age \in 0 .. HOST_TIMEOUT
    /\ loop_age \in 0 .. MAX_LOOP

Init ==
    /\ WheelsInit
    /\ pc = "wheels_begin"
    /\ have_cmd_vel = FALSE
    /\ cmd_age = 0
    /\ brake_in = 0
    /\ sample_in = 0
    /\ host_seen = FALSE
    /\ host_age = 0
    /\ loop_age = 0


-----------------------------------------------------------------------------
(* setup() *)

WheelsBegin ==
    /\ pc = "wheels_begin"
    /\ \E found \in SUBSET Wheel : \E set \in SUBSET found : wheels_begin(found, set)
    /\ pc' = "brake"
    /\ UNCHANGED rosVars

SetupBrake ==
    /\ pc = "brake"
    /\ \E out \in Outcomes : BrakeAll(out)
    /\ pc' = "ros_begin"
    /\ UNCHANGED <<gyro, rosVars>>

\* The router answered and every declaration succeeded, or one of them failed.
RosBegin ==
    /\ pc = "ros_begin"
    /\ \/ pc' = "spin" /\ loop_age' = 0
       \/ pc' = "fatal" /\ UNCHANGED loop_age
    /\ UNCHANGED <<wheelsVars, have_cmd_vel, cmd_age, brake_in, sample_in, host_seen, host_age>>

-----------------------------------------------------------------------------
(* Callbacks, run from easyp_spin_once; one call of it may run several. *)

\* A command before the gyro is calibrated is dropped: startup motion is never queued.
DropCommand ==
    /\ pc = "spin"
    /\ ~gyro.calibrated
    /\ have_cmd_vel' = FALSE
    /\ UNCHANGED <<wheelsVars, pc, cmd_age, brake_in, sample_in, host_seen, host_age, loop_age>>

\* Mutant: the time of the command is not taken down.
AcceptCommand_Untimed(cmd) ==
    /\ pc = "spin"
    /\ gyro.calibrated
    /\ wheels_set_velocity(cmd)
    /\ have_cmd_vel' = TRUE
    /\ UNCHANGED <<pc, cmd_age, brake_in, sample_in, host_seen, host_age, loop_age>>

AcceptCommand(cmd) ==
    /\ pc = "spin"
    /\ gyro.calibrated
    /\ wheels_set_velocity(cmd)
    /\ have_cmd_vel' = TRUE
    /\ cmd_age' = 0
    /\ UNCHANGED <<pc, brake_in, sample_in, host_seen, host_age, loop_age>>

RefuseCommand(cmd, out) ==
    /\ pc = "spin"
    /\ gyro.calibrated
    /\ ~SetVelocityAccepts(cmd)
    /\ have_cmd_vel' = FALSE
    /\ BrakeAll(out)
    /\ UNCHANGED <<gyro, pc, cmd_age, brake_in, sample_in, host_seen, host_age, loop_age>>

on_cmd_vel(cmd, out) == DropCommand \/ AcceptCommand(cmd) \/ RefuseCommand(cmd, out)

on_gyro_calibrate(out) ==
    /\ pc = "spin"
    /\ wheels_restart_gyro_calibration(out)
    /\ have_cmd_vel' = FALSE
    /\ UNCHANGED <<pc, cmd_age, brake_in, sample_in, host_seen, host_age, loop_age>>

\* on_time_sync with a response time_sync_accept takes; TimeSync models which it takes.
on_time_sync ==
    /\ pc = "spin"
    /\ host_seen' = TRUE
    /\ host_age' = 0
    /\ UNCHANGED <<wheelsVars, pc, have_cmd_vel, cmd_age, brake_in, sample_in, loop_age>>

SpinDone ==
    /\ pc = "spin"
    /\ pc' = "watchdog"
    /\ UNCHANGED <<wheelsVars, rosVars>>

-----------------------------------------------------------------------------
(* The rest of ros_update, and wheels_update. *)

\* Mutant: fresh for one tick too long.
CommandFresh_OffByOne == have_cmd_vel /\ cmd_age <= COMMAND_TIMEOUT

CommandFresh == have_cmd_vel /\ cmd_age < COMMAND_TIMEOUT

cmd_vel_watchdog(out) ==
    /\ pc = "watchdog"
    /\ pc' = "sample"
    /\ loop_age' = 0
    /\ \/ /\ CommandFresh
          /\ brake_in' = 0
          /\ UNCHANGED wheelsVars
       \/ /\ ~CommandFresh
          /\ brake_in = 0
          /\ BrakeAll(out)
          /\ brake_in' = WATCHDOG_PERIOD
          /\ UNCHANGED gyro
       \/ /\ ~CommandFresh
          /\ brake_in > 0
          /\ UNCHANGED <<wheelsVars, brake_in>>
    /\ UNCHANGED <<have_cmd_vel, cmd_age, sample_in, host_seen, host_age>>

sample_imu(sample) ==
    /\ pc = "sample"
    /\ pc' = "host"
    /\ \/ /\ sample_in > 0
          /\ UNCHANGED <<wheelsVars, sample_in>>
       \/ /\ sample_in = 0
          /\ sample_in' = SAMPLE_PERIOD
          /\ wheels_observe_gyro(sample)
    /\ UNCHANGED <<have_cmd_vel, cmd_age, brake_in, host_seen, host_age, loop_age>>

HostExpired == host_seen /\ host_age >= HOST_TIMEOUT

HostAlive ==
    /\ pc = "host"
    /\ ~HostExpired
    /\ pc' = "wheels"
    /\ UNCHANGED <<wheelsVars, rosVars>>

\* Everything in RAM is lost; the motors keep what they were last told.
Restart ==
    /\ WheelsReset
    /\ pc' = "wheels_begin"
    /\ have_cmd_vel' = FALSE
    /\ cmd_age' = 0
    /\ brake_in' = 0
    /\ sample_in' = 0
    /\ host_seen' = FALSE
    /\ host_age' = 0
    /\ loop_age' = 0

\* restart_for_connection_loss: brake all, then watchdog_reboot.
RestartForConnectionLoss(out) ==
    /\ pc = "host"
    /\ HostExpired
    /\ motor' = [i \in Wheel |-> IF online[i] /\ Delivered(out[i]) THEN "brake" ELSE motor[i]]
    /\ Restart

WheelsUpdate(sent, out, at_rest) ==
    /\ pc = "wheels"
    /\ pc' = "spin"
    /\ wheels_update(sent, out, at_rest)
    /\ UNCHANGED rosVars

-----------------------------------------------------------------------------
(* The world: the board is reset at any moment, and time passes. *)

PowerCycle ==
    /\ Restart
    /\ UNCHANGED motor

Tick ==
    /\ pc \in Looping => loop_age < MAX_LOOP
    /\ WheelsOlder
    /\ cmd_age' = Older(cmd_age, COMMAND_AGE_MAX)
    /\ brake_in' = IF brake_in > 0 THEN brake_in - 1 ELSE 0
    /\ sample_in' = IF sample_in > 0 THEN sample_in - 1 ELSE 0
    /\ host_age' = Older(host_age, HOST_TIMEOUT)
    /\ loop_age' = Older(loop_age, MAX_LOOP)
    /\ UNCHANGED <<pc, have_cmd_vel, host_seen>>

Callback ==
    \/ DropCommand
    \/ \E cmd \in Commands : AcceptCommand(cmd)
    \/ \E cmd \in Commands, out \in Outcomes : RefuseCommand(cmd, out)
    \/ \E out \in Outcomes : on_gyro_calibrate(out)
    \/ on_time_sync

Next ==
    \/ WheelsBegin
    \/ SetupBrake
    \/ RosBegin
    \/ Callback
    \/ SpinDone
    \/ \E out \in Outcomes : cmd_vel_watchdog(out)
    \/ \E sample \in Samples : sample_imu(sample)
    \/ HostAlive
    \/ \E out \in Outcomes : RestartForConnectionLoss(out)
    \/ \E sent, out \in Outcomes, at_rest \in BOOLEAN : WheelsUpdate(sent, out, at_rest)
    \/ PowerCycle
    \/ Tick

Spec == Init /\ [][Next]_vars

-----------------------------------------------------------------------------
(* What the drive promises. *)

\* The motion the firmware enabled never outlives the last accepted command by
\* COMMAND_TIMEOUT plus one round of the loop, whatever callbacks, faults, brakes
\* and pending 5 Hz brake deadline came in between (cmd_vel_watchdog).
MotionWithinTimeout == motion_enabled => cmd_age < COMMAND_TIMEOUT + MAX_LOOP

\* Motion is enabled only with a calibrated gyro and a command the watchdog still
\* knows of: neither a recalibration nor a command refused midway leaves it enabled.
MotionIsGated == motion_enabled => gyro.calibrated /\ have_cmd_vel

\* Why the watchdog is in time.  While motion is enabled the command is younger than the
\* timeout plus the time since the watchdog last looked, and the brake deadline left by
\* an earlier stop runs out before the command does: no stale deadline delays the brake.
CommandClock ==
    motion_enabled =>
        /\ cmd_age < COMMAND_TIMEOUT + loop_age
        /\ brake_in = 0 \/ brake_in + cmd_age <= WATCHDOG_PERIOD

\* Nothing moves before the loop runs, and nothing is known of the wheels at power-up.
BootIsStopped ==
    /\ pc \in Booting => ~motion_enabled
    /\ pc = "wheels_begin" => \A i \in Wheel : ~feedback[i].valid

\* The inductive invariant of the loop.
IInv ==
    /\ TypeOK
    /\ WheelsInv
    /\ motion_enabled => have_cmd_vel
    /\ CommandClock
    /\ BootIsStopped

\* Motion resumes from a known state only: at the step that enables it every motor is
\* in brake, so no wheel still turns on a setpoint from before the stop.
ResumesFromBrake ==
    [][~motion_enabled /\ motion_enabled' => \A i \in Wheel : motor[i] = "brake"]_vars

\* No motor leaves its brake unless a command, the gyro and all wheels are fresh;
\* the mode frame of wheels_begin is the one exception.
ReleaseIsEarned ==
    [][\A i \in Wheel :
          motor[i] = "brake" /\ motor'[i] = "velocity" /\ pc # "wheels_begin"
          => /\ have_cmd_vel /\ cmd_age < COMMAND_TIMEOUT + MAX_LOOP
             /\ GyroFresh(gyro) /\ MeasuredTwist]_vars

\* The drive is a dead man's switch.
DeadmanSwitch == INSTANCE Deadman WITH
    LIMIT <- COMMAND_TIMEOUT + MAX_LOOP, driving <- motion_enabled, age <- cmd_age

ImplementsDeadman == DeadmanSwitch!Spec

-----------------------------------------------------------------------------
(* Liveness.  The loop keeps running and time passes; the router comes up and *)
(* the declarations succeed; a frame sent again and again is not lost forever. *)

RepeatedBrakeArrives(i) ==
    \E out \in Outcomes :
        /\ Delivered(out[i])
        /\ pc = "wheels"
        /\ pc' = "spin"
        /\ RepeatBrake(out)
        /\ UNCHANGED rosVars

WatchdogBrakeArrives(i) ==
    /\ ~CommandFresh
    /\ brake_in = 0
    /\ \E out \in Outcomes : Delivered(out[i]) /\ cmd_vel_watchdog(out)

Fairness ==
    /\ WF_vars(WheelsBegin) /\ WF_vars(SetupBrake)
    /\ SF_vars(RosBegin /\ pc' = "spin")
    /\ WF_vars(SpinDone)
    /\ WF_vars(\E out \in Outcomes : cmd_vel_watchdog(out))
    /\ WF_vars(\E sample \in Samples : sample_imu(sample))
    /\ WF_vars(HostAlive)
    /\ WF_vars(\E out \in Outcomes : RestartForConnectionLoss(out))
    /\ WF_vars(\E sent, out \in Outcomes, at_rest \in BOOLEAN :
                   WheelsUpdate(sent, out, at_rest))
    /\ WF_vars(Tick)
    /\ \A i \in Wheel : SF_vars(RepeatedBrakeArrives(i)) /\ SF_vars(WatchdogBrakeArrives(i))

FairSpec == Spec /\ Fairness

\* A stop gets through: with motion disabled, every wheel that is online is in the end
\* braked, although its brake frame may have been lost (the 50 Hz repetition of
\* wheels_update and the 5 Hz one of the watchdog), unless motion is commanded again,
\* the board goes down or ros_begin fails for good.
StopGetsThrough ==
    \A i \in Wheel :
        (~motion_enabled /\ online[i])
            ~> (motor[i] = "brake" \/ motion_enabled \/ pc \in {"wheels_begin", "fatal"})
=============================================================================
