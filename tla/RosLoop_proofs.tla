--------------------------- MODULE RosLoop_proofs ---------------------------
(***************************************************************************)
(* The drive of the ROS firmware is safe for any number of wheels, any     *)
(* timeouts with WATCHDOG_PERIOD <= COMMAND_TIMEOUT, and any loop that     *)
(* comes back to its watchdog within MAX_LOOP.                             *)
(***************************************************************************)
EXTENDS RosLoop, Wheels_proofs

\* A sample the loop can read is one Wheels_proofs speaks of.
LEMMA SampleType == Samples \subseteq [valid : BOOLEAN, quiet : BOOLEAN, rate : Int]
BY RosAssumption DEF Samples

\* The board powers up in the invariant.
LEMMA InitInv == Init => IInv
<1> SUFFICES ASSUME Init PROVE IInv
  OBVIOUS
<1>1. WheelsInv /\ ~motion_enabled /\ \A i \in Wheel : ~feedback[i].valid
  BY WheelsInitInv DEF Init
<1>0. /\ 0 \in 0 .. COMMAND_TIMEOUT + MAX_LOOP /\ 0 \in 0 .. WATCHDOG_PERIOD
      /\ 0 \in 0 .. SAMPLE_PERIOD /\ 0 \in 0 .. HOST_TIMEOUT /\ 0 \in 0 .. MAX_LOOP
  BY RosAssumption
<1>2. TypeOK
  BY <1>1, <1>0 DEF Init, TypeOK, Booting, COMMAND_AGE_MAX, WheelsInv
<1>3. QED
  BY <1>1, <1>2 DEF Init, IInv, CommandClock, BootIsStopped

\* setup() keeps the invariant and ends with motion disabled.
LEMMA BootInv ==
    ASSUME IInv, WheelsBegin \/ SetupBrake \/ RosBegin
    PROVE  IInv'
<1>1. CASE WheelsBegin
  <2>1. WheelsInv' /\ ~motion_enabled'
    BY <1>1, BeginInv DEF WheelsBegin, IInv, BootIsStopped, Booting
  <2>2. QED
    BY <1>1, <2>1 DEF WheelsBegin, IInv, TypeOK, CommandClock, BootIsStopped, Booting,
                      rosVars, WheelsInv
<1>2. CASE SetupBrake
  <2>1. WheelsInv' /\ ~motion_enabled'
    BY <1>2, BrakeAllInv DEF SetupBrake, IInv
  <2>2. QED
    BY <1>2, <2>1 DEF SetupBrake, IInv, TypeOK, CommandClock, BootIsStopped, Booting,
                      rosVars, WheelsInv
<1>3. CASE RosBegin
  <2>1. WheelsInv' /\ ~motion_enabled'
    BY <1>3 DEF RosBegin, IInv, BootIsStopped, Booting, wheelsVars, WheelsInv, WheelsTypeOK,
                WheelsMoveTogether, StoppedMeansBraked
  <2>2. loop_age' \in 0 .. MAX_LOOP
    BY <1>3, RosAssumption DEF RosBegin, IInv, TypeOK
  <2>3. QED
    BY <1>3, <2>1, <2>2 DEF RosBegin, IInv, TypeOK, CommandClock, BootIsStopped, Booting,
                            Looping, rosVars, WheelsInv
<1>4. QED
  BY <1>1, <1>2, <1>3

\* Every callback keeps the invariant: a refused command and a recalibration stop the
\* drive before they forget the command, an accepted one is timed as it enables motion.
LEMMA CallbackInv ==
    ASSUME IInv, Callback
    PROVE  IInv'
<1> USE DEF IInv
<1>1. CASE DropCommand
  BY <1>1 DEF DropCommand, wheelsVars, TypeOK, CommandClock, BootIsStopped, Booting,
              WheelsInv, WheelsTypeOK, WheelsMoveTogether, StoppedMeansBraked
<1>2. ASSUME NEW cmd \in Commands, AcceptCommand(cmd)
      PROVE  IInv'
  <2>1. WheelsInv' /\ motion_enabled'
    BY <1>2, SetVelocityInv DEF AcceptCommand
  <2>2. TypeOK'
    BY <1>2, <2>1, RosAssumption DEF AcceptCommand, TypeOK, WheelsInv, COMMAND_AGE_MAX
  <2>3. CommandClock'
    BY <1>2, RosAssumption DEF AcceptCommand, TypeOK, CommandClock
  <2>4. QED
    BY <1>2, <2>1, <2>2, <2>3 DEF AcceptCommand, BootIsStopped, Booting
<1>3. ASSUME NEW cmd \in Commands, NEW out \in Outcomes, RefuseCommand(cmd, out)
      PROVE  IInv'
  <2>1. WheelsInv' /\ ~motion_enabled'
    BY <1>3, BrakeAllInv DEF RefuseCommand
  <2>2. QED
    BY <1>3, <2>1 DEF RefuseCommand, TypeOK, CommandClock, BootIsStopped, WheelsInv
<1>4. ASSUME NEW out \in Outcomes, on_gyro_calibrate(out)
      PROVE  IInv'
  <2>1. WheelsInv' /\ ~motion_enabled'
    BY <1>4, BrakeAllInv DEF on_gyro_calibrate, wheels_restart_gyro_calibration
  <2>2. QED
    BY <1>4, <2>1 DEF on_gyro_calibrate, TypeOK, CommandClock, BootIsStopped, WheelsInv
<1>5. CASE on_time_sync
  <2>1. host_age' \in 0 .. HOST_TIMEOUT
    BY <1>5, RosAssumption DEF on_time_sync
  <2>2. QED
    BY <1>5, <2>1 DEF on_time_sync, wheelsVars, TypeOK, CommandClock, BootIsStopped, Booting,
              WheelsInv, WheelsTypeOK, WheelsMoveTogether, StoppedMeansBraked
<1>6. QED
  BY <1>1, <1>2, <1>3, <1>4, <1>5 DEF Callback

\* The watchdog keeps the invariant.  A command that went stale under motion finds no
\* brake deadline pending, so the drive is stopped in this very call.
LEMMA WatchdogInv ==
    ASSUME IInv, NEW out \in Outcomes, cmd_vel_watchdog(out)
    PROVE  IInv'
<1> USE DEF IInv
<1>1. /\ pc' = "sample" /\ loop_age' = 0
      /\ UNCHANGED <<have_cmd_vel, cmd_age, sample_in, host_seen, host_age>>
  BY DEF cmd_vel_watchdog
<1>2. loop_age' \in 0 .. MAX_LOOP
  BY <1>1, RosAssumption
<1>3. CASE CommandFresh
  <2>1. brake_in' = 0 /\ UNCHANGED wheelsVars
    BY <1>3 DEF cmd_vel_watchdog
  <2>2. WheelsInv' /\ motion_enabled' = motion_enabled
    BY <2>1 DEF wheelsVars, WheelsInv, WheelsTypeOK, WheelsMoveTogether, StoppedMeansBraked
  <2>3. brake_in' \in 0 .. WATCHDOG_PERIOD
    BY <2>1, RosAssumption
  <2>4. TypeOK'
    BY <1>1, <1>2, <2>2, <2>3 DEF TypeOK, WheelsInv, Looping
  <2>5. CommandClock'
    BY <1>1, <1>3, <2>1, RosAssumption DEF CommandClock, CommandFresh, TypeOK
  <2>6. QED
    BY <1>1, <2>2, <2>4, <2>5 DEF BootIsStopped, Booting
<1>4. CASE ~CommandFresh /\ brake_in = 0
  <2>1. BrakeAll(out) /\ brake_in' = WATCHDOG_PERIOD /\ UNCHANGED gyro
    BY <1>4 DEF cmd_vel_watchdog
  <2>2. WheelsInv' /\ ~motion_enabled'
    BY <2>1, BrakeAllInv
  <2>3. brake_in' \in 0 .. WATCHDOG_PERIOD
    BY <2>1, RosAssumption
  <2>4. TypeOK'
    BY <1>1, <1>2, <2>2, <2>3 DEF TypeOK, WheelsInv, Looping
  <2>5. QED
    BY <1>1, <2>2, <2>4 DEF CommandClock, BootIsStopped, Booting
<1>5. CASE ~CommandFresh /\ brake_in # 0
  <2>1. UNCHANGED wheelsVars /\ brake_in' = brake_in
    BY <1>5 DEF cmd_vel_watchdog
  <2>2. WheelsInv' /\ motion_enabled' = motion_enabled
    BY <2>1 DEF wheelsVars, WheelsInv, WheelsTypeOK, WheelsMoveTogether, StoppedMeansBraked
  <2>3. ~motion_enabled
    <3> SUFFICES ASSUME motion_enabled PROVE FALSE
      OBVIOUS
    <3>1. cmd_age >= COMMAND_TIMEOUT
      BY <1>5, RosAssumption DEF CommandFresh, TypeOK
    <3>2. brake_in + cmd_age <= WATCHDOG_PERIOD
      BY <1>5 DEF CommandClock
    <3>3. QED
      BY <1>5, <3>1, <3>2, RosAssumption DEF TypeOK
  <2>4. TypeOK'
    BY <1>1, <1>2, <2>1, <2>2 DEF TypeOK, WheelsInv, Looping
  <2>5. QED
    BY <1>1, <2>2, <2>3, <2>4 DEF CommandClock, BootIsStopped, Booting
<1>6. QED
  BY <1>3, <1>4, <1>5

\* The other calls of the loop keep the invariant: none of them enables motion.
LEMMA LoopInv ==
    ASSUME IInv, \/ SpinDone
                 \/ \E sample \in Samples : sample_imu(sample)
                 \/ HostAlive
                 \/ \E sent, out \in Outcomes, at_rest \in BOOLEAN :
                        WheelsUpdate(sent, out, at_rest)
    PROVE  IInv'
<1> USE DEF IInv
<1>1. CASE SpinDone \/ HostAlive
  BY <1>1 DEF SpinDone, HostAlive, wheelsVars, rosVars, TypeOK, CommandClock, BootIsStopped,
              Booting, Looping, WheelsInv, WheelsTypeOK, WheelsMoveTogether, StoppedMeansBraked
<1>2. ASSUME NEW sample \in Samples, sample_imu(sample)
      PROVE  IInv'
  <2>1. WheelsInv' /\ motion_enabled' = motion_enabled
    <3>1. CASE UNCHANGED wheelsVars
      BY <3>1 DEF wheelsVars, WheelsInv, WheelsTypeOK, WheelsMoveTogether, StoppedMeansBraked
    <3>2. CASE wheels_observe_gyro(sample)
      BY <3>2, SampleType, ObserveGyroInv
    <3>3. QED
      BY <1>2, <3>1, <3>2 DEF sample_imu
  <2>2. sample_in' \in 0 .. SAMPLE_PERIOD
    BY <1>2, RosAssumption DEF sample_imu, TypeOK
  <2>3. QED
    BY <1>2, <2>1, <2>2 DEF sample_imu, TypeOK, CommandClock, BootIsStopped, Booting, Looping,
                            WheelsInv
<1>3. ASSUME NEW sent \in Outcomes, NEW out \in Outcomes, NEW at_rest \in BOOLEAN,
             WheelsUpdate(sent, out, at_rest)
      PROVE  IInv'
  <2>1. WheelsInv' /\ (motion_enabled' => motion_enabled)
    BY <1>3, UpdateInv DEF WheelsUpdate
  <2>2. QED
    BY <1>3, <2>1 DEF WheelsUpdate, rosVars, TypeOK, CommandClock, BootIsStopped, Booting,
                      Looping, WheelsInv
<1>4. QED
  BY <1>1, <1>2, <1>3

\* A restart, braked or not, is a power-up with the motors as they were left.
LEMMA RestartInv ==
    ASSUME IInv, PowerCycle \/ \E out \in Outcomes : RestartForConnectionLoss(out)
    PROVE  IInv'
<1>1. motor' \in [Wheel -> {"velocity", "brake"}] /\ Restart
  BY DEF PowerCycle, RestartForConnectionLoss, IInv, WheelsInv, WheelsTypeOK
<1>2. WheelsInv' /\ ~motion_enabled' /\ \A i \in Wheel : ~feedback'[i].valid
  BY <1>1, ResetInv DEF Restart
<1>0. /\ 0 \in 0 .. COMMAND_TIMEOUT + MAX_LOOP /\ 0 \in 0 .. WATCHDOG_PERIOD
      /\ 0 \in 0 .. SAMPLE_PERIOD /\ 0 \in 0 .. HOST_TIMEOUT /\ 0 \in 0 .. MAX_LOOP
  BY RosAssumption
<1>3. TypeOK'
  BY <1>1, <1>2, <1>0 DEF Restart, TypeOK, WheelsInv, Booting, COMMAND_AGE_MAX
<1>4. QED
  BY <1>1, <1>2, <1>3 DEF Restart, IInv, CommandClock, BootIsStopped

\* A countdown and an age that together stay below a bound do so as both move on.
LEMMA CountdownMeetsAge ==
    ASSUME NEW down \in Nat, NEW age \in Nat, NEW older \in Nat, NEW period \in Nat,
           down + age <= period, older <= age + 1
    PROVE  down - 1 + older <= period
OBVIOUS

\* A tick keeps the invariant: the command, the watchdog and the brake deadline age alike.
LEMMA TickInv ==
    ASSUME IInv, Tick
    PROVE  IInv'
<1> USE DEF IInv
<1>1. /\ WheelsInv' /\ motion_enabled' = motion_enabled
      /\ \A i \in Wheel : feedback'[i].valid = feedback[i].valid
  BY WheelsOlderInv DEF Tick
<1>2. /\ cmd_age' \in 0 .. COMMAND_AGE_MAX /\ brake_in' \in 0 .. WATCHDOG_PERIOD
      /\ sample_in' \in 0 .. SAMPLE_PERIOD /\ host_age' \in 0 .. HOST_TIMEOUT
      /\ loop_age' \in 0 .. MAX_LOOP
  BY RosAssumption DEF Tick, TypeOK, Older, COMMAND_AGE_MAX
<1>3. TypeOK'
  BY <1>1, <1>2 DEF Tick, TypeOK, WheelsInv
<1>4. CommandClock'
  <2> SUFFICES ASSUME motion_enabled
               PROVE  /\ cmd_age' < COMMAND_TIMEOUT + loop_age'
                      /\ brake_in' = 0 \/ brake_in' + cmd_age' <= WATCHDOG_PERIOD
    BY <1>1 DEF CommandClock
  <2>1. loop_age < MAX_LOOP
    BY DEF Tick, BootIsStopped, TypeOK
  <2>2. loop_age' = loop_age + 1
    BY <2>1, RosAssumption DEF Tick, TypeOK, Older
  <2>3. cmd_age' <= cmd_age + 1 /\ cmd_age' \in Nat
    BY RosAssumption DEF Tick, TypeOK, Older, COMMAND_AGE_MAX
  <2>4. brake_in' = IF brake_in > 0 THEN brake_in - 1 ELSE 0
    BY DEF Tick
  <2>5. /\ cmd_age < COMMAND_TIMEOUT + loop_age
        /\ brake_in = 0 \/ brake_in + cmd_age <= WATCHDOG_PERIOD
    BY DEF CommandClock
  <2>6. /\ cmd_age \in Nat /\ loop_age \in Nat /\ brake_in \in Nat
        /\ COMMAND_TIMEOUT \in Nat /\ WATCHDOG_PERIOD \in Nat
    BY RosAssumption DEF TypeOK, COMMAND_AGE_MAX
  <2>7. cmd_age' < COMMAND_TIMEOUT + loop_age'
    BY <2>2, <2>3, <2>5, <2>6
  <2>8. brake_in' = 0 \/ brake_in' + cmd_age' <= WATCHDOG_PERIOD
    <3>1. CASE brake_in = 0
      BY <3>1, <2>4
    <3>2. CASE brake_in > 0
      <4>1. brake_in' = brake_in - 1 /\ brake_in + cmd_age <= WATCHDOG_PERIOD
        BY <3>2, <2>4, <2>5, <2>6
      <4>2. QED
        BY <4>1, <2>3, <2>6, CountdownMeetsAge
    <3>3. QED
      BY <3>1, <3>2, <2>6
  <2>9. QED
    BY <2>7, <2>8
<1>5. QED
  BY <1>1, <1>3, <1>4 DEF Tick, BootIsStopped

\* IInv is inductive.
LEMMA NextInv == IInv /\ [Next]_vars => IInv'
<1> SUFFICES ASSUME IInv, [Next]_vars PROVE IInv'
  OBVIOUS
<1>1. CASE WheelsBegin \/ SetupBrake \/ RosBegin
  BY <1>1, BootInv
<1>2. CASE Callback
  BY <1>2, CallbackInv
<1>3. CASE \E out \in Outcomes : cmd_vel_watchdog(out)
  BY <1>3, WatchdogInv
<1>4. CASE \/ SpinDone
           \/ \E sample \in Samples : sample_imu(sample)
           \/ HostAlive
           \/ \E sent, out \in Outcomes, at_rest \in BOOLEAN : WheelsUpdate(sent, out, at_rest)
  BY <1>4, LoopInv
<1>5. CASE PowerCycle \/ \E out \in Outcomes : RestartForConnectionLoss(out)
  BY <1>5, RestartInv
<1>6. CASE Tick
  BY <1>6, TickInv
<1>7. CASE UNCHANGED vars
  BY <1>7 DEF vars, wheelsVars, rosVars, IInv, TypeOK, CommandClock, BootIsStopped,
              WheelsInv, WheelsTypeOK, WheelsMoveTogether, StoppedMeansBraked
<1>8. QED
  BY <1>1, <1>2, <1>3, <1>4, <1>5, <1>6, <1>7 DEF Next

\* The invariant holds of every behaviour of the firmware.
THEOREM Invariance == Spec => []IInv
BY InitInv, NextInv, PTL DEF Spec

\* Every variable keeps its type.
THEOREM TypeCorrect == Spec => []TypeOK
<1>1. IInv => TypeOK
  BY DEF IInv
<1>2. QED
  BY <1>1, Invariance, PTL

\* The drive never outlives its last command by more than the timeout and one round
\* of the loop (COMMAND_TIMEOUT_MS, cmd_vel_watchdog).
THEOREM WatchdogInTime == Spec => []MotionWithinTimeout
<1>1. IInv => MotionWithinTimeout
  BY RosAssumption DEF IInv, CommandClock, MotionWithinTimeout, TypeOK, COMMAND_AGE_MAX
<1>2. QED
  BY <1>1, Invariance, PTL

\* Motion needs a calibrated gyro and a command on record (on_cmd_vel, on_gyro_calibrate).
THEOREM MotionGated == Spec => []MotionIsGated
<1>1. IInv => MotionIsGated
  BY DEF IInv, WheelsInv, MotionIsGated
<1>2. QED
  BY <1>1, Invariance, PTL

\* One wheel that fails stops them all (the send loop of wheels_update).
THEOREM OneFailsAllStop == Spec => []WheelsMoveTogether
<1>1. IInv => WheelsMoveTogether
  BY DEF IInv, WheelsInv
<1>2. QED
  BY <1>1, Invariance, PTL

\* A stopped wheel that answers is braked, whatever frames were lost (wheels_brake).
THEOREM StoppedBraked == Spec => []StoppedMeansBraked
<1>1. IInv => StoppedMeansBraked
  BY DEF IInv, WheelsInv
<1>2. QED
  BY <1>1, Invariance, PTL

\* Of all the actions of the loop only an accepted command enables motion.
LEMMA OnlyCommandEnables ==
    ASSUME IInv, Next, ~motion_enabled, motion_enabled'
    PROVE  \E cmd \in Commands : AcceptCommand(cmd)
<1>1. ~WheelsBegin /\ ~SetupBrake /\ ~RosBegin
  BY DEF WheelsBegin, SetupBrake, RosBegin, wheels_begin, BrakeAll, StopMotion, wheelsVars
<1>2. ~SpinDone /\ ~HostAlive /\ ~DropCommand /\ ~on_time_sync
  BY DEF SpinDone, HostAlive, DropCommand, on_time_sync, wheelsVars
<1>3. ~\E out \in Outcomes : cmd_vel_watchdog(out)
  BY DEF cmd_vel_watchdog, wheelsVars, BrakeAll, StopMotion
<1>4. ~\E sample \in Samples : sample_imu(sample)
  BY DEF sample_imu, wheels_observe_gyro, wheelsVars
<1>5. ~\E cmd \in Commands, out \in Outcomes : RefuseCommand(cmd, out)
  BY DEF RefuseCommand, BrakeAll, StopMotion
<1>6. ~\E out \in Outcomes : on_gyro_calibrate(out)
  BY DEF on_gyro_calibrate, wheels_restart_gyro_calibration, BrakeAll, StopMotion
<1>7. ~PowerCycle /\ ~\E out \in Outcomes : RestartForConnectionLoss(out)
  BY DEF PowerCycle, RestartForConnectionLoss, Restart, WheelsReset
<1>8. ~\E sent, out \in Outcomes, at_rest \in BOOLEAN : WheelsUpdate(sent, out, at_rest)
  BY UpdateInv DEF WheelsUpdate, IInv
<1>9. ~Tick
  BY DEF Tick, WheelsOlder
<1>10. QED
  BY <1>1, <1>2, <1>3, <1>4, <1>5, <1>6, <1>7, <1>8, <1>9 DEF Next, Callback

\* Only a command enables motion, and only with every motor in brake (wheels_set_velocity).
THEOREM ResumesBraked == Spec => ResumesFromBrake
<1>1. IInv /\ [Next]_vars =>
          [~motion_enabled /\ motion_enabled' => \A i \in Wheel : motor[i] = "brake"]_vars
  <2> SUFFICES ASSUME IInv, Next, ~motion_enabled, motion_enabled'
               PROVE  \A i \in Wheel : motor[i] = "brake"
    OBVIOUS
  <2>1. PICK cmd \in Commands : AcceptCommand(cmd)
    BY OnlyCommandEnables
  <2>2. \A i \in Wheel : feedback[i].valid
    BY <2>1 DEF AcceptCommand, wheels_set_velocity, SetVelocityAccepts, MeasuredTwist, Fresh
  <2>3. QED
    BY <2>2 DEF IInv, WheelsInv, StoppedMeansBraked
<1>2. QED
  BY <1>1, Invariance, PTL DEF Spec, ResumesFromBrake

\* What is true of the current round of the loop is true of the longest one.
LEMMA WithinRound ==
    ASSUME NEW age \in Nat, NEW timeout \in Nat, NEW round \in Nat, NEW longest \in Nat,
           age < timeout + round, round <= longest
    PROVE  age < timeout + longest
OBVIOUS

\* Everything the loop does to the drive is an order, a stop, the passing of time, or
\* nothing: the step simulation of the refinement.
LEMMA StepIsDeadman ==
    ASSUME IInv, IInv', Next
    PROVE  DeadmanSwitch!Next \/ UNCHANGED <<motion_enabled, cmd_age>>
<1>0. /\ cmd_age \in 0 .. COMMAND_TIMEOUT + MAX_LOOP
      /\ cmd_age' \in 0 .. COMMAND_TIMEOUT + MAX_LOOP
      /\ motion_enabled \in BOOLEAN /\ motion_enabled' \in BOOLEAN
  BY DEF IInv, TypeOK, COMMAND_AGE_MAX, WheelsTypeOK
<1>1. CASE ~motion_enabled'
  BY <1>0, <1>1 DEF DeadmanSwitch!Next, DeadmanSwitch!Stop
<1>2. CASE \E cmd \in Commands : AcceptCommand(cmd)
  BY <1>2 DEF AcceptCommand, wheels_set_velocity, DeadmanSwitch!Next, DeadmanSwitch!Order
<1>3. CASE motion_enabled' /\ Tick
  <2>1. cmd_age' = IF cmd_age < COMMAND_TIMEOUT + MAX_LOOP THEN cmd_age + 1
                   ELSE COMMAND_TIMEOUT + MAX_LOOP
    BY <1>3 DEF Tick, Older, COMMAND_AGE_MAX
  <2>2. motion_enabled' = motion_enabled
    BY <1>3 DEF Tick, WheelsOlder
  <2>3. cmd_age' < COMMAND_TIMEOUT + MAX_LOOP
    <3>1. cmd_age' < COMMAND_TIMEOUT + loop_age' /\ loop_age' \in 0 .. MAX_LOOP
      BY <1>3 DEF IInv, CommandClock, TypeOK
    <3>2. COMMAND_TIMEOUT \in Nat /\ MAX_LOOP \in Nat /\ cmd_age' \in Nat /\ loop_age' \in Nat
      BY <3>1, <1>0, RosAssumption
    <3>3. loop_age' <= MAX_LOOP
      BY <3>1, <3>2
    <3>4. QED
      BY <3>1, <3>2, <3>3, WithinRound
  <2>4. QED
    BY <2>1, <2>2, <2>3 DEF DeadmanSwitch!Next, DeadmanSwitch!Pass
<1>4. CASE /\ motion_enabled' /\ ~Tick
           /\ ~\E cmd \in Commands : AcceptCommand(cmd)
  <2>1. motion_enabled
    BY <1>4, OnlyCommandEnables
  <2>2. ~WheelsBegin /\ ~SetupBrake /\ ~RosBegin
    BY <2>1 DEF IInv, BootIsStopped, Booting, WheelsBegin, SetupBrake, RosBegin
  <2>3. ~PowerCycle /\ ~\E out \in Outcomes : RestartForConnectionLoss(out)
    BY <1>4 DEF PowerCycle, RestartForConnectionLoss, Restart, WheelsReset
  <2>4. ~on_time_sync \/ cmd_age' = cmd_age
    BY DEF on_time_sync
  <2>5. cmd_age' = cmd_age
    BY <1>4, <2>2, <2>3, <2>4
       DEF Next, Callback, SpinDone, HostAlive, DropCommand, RefuseCommand, rosVars,
           on_gyro_calibrate, cmd_vel_watchdog, sample_imu, WheelsUpdate
  <2>6. QED
    BY <2>1, <2>5, <1>4, <1>0
<1>5. QED
  BY <1>0, <1>1, <1>2, <1>3, <1>4

\* The drive is a dead man's switch: Deadman with LIMIT set to the command timeout plus
\* one round of the loop (on_cmd_vel, cmd_vel_watchdog, wheels_brake).
THEOREM DriveIsDeadman == Spec => ImplementsDeadman
<1>1. Init => DeadmanSwitch!Init
  BY RosAssumption DEF Init, WheelsInit, DeadmanSwitch!Init
<1>2. IInv /\ IInv' /\ [Next]_vars => [DeadmanSwitch!Next]_(DeadmanSwitch!deadmanVars)
  <2>1. CASE UNCHANGED vars
    BY <2>1 DEF vars, wheelsVars, rosVars, DeadmanSwitch!deadmanVars
  <2>2. QED
    BY <2>1, StepIsDeadman DEF DeadmanSwitch!deadmanVars
<1>3. QED
  BY <1>1, <1>2, Invariance, PTL DEF Spec, ImplementsDeadman, DeadmanSwitch!Spec

\* A motor leaves its brake only for a command, a gyro and wheels that are all fresh
\* (wheels_update; wheels_begin's mode frame excepted).
THEOREM ReleaseEarned == Spec => ReleaseIsEarned
<1> DEFINE Earned == /\ have_cmd_vel /\ cmd_age < COMMAND_TIMEOUT + MAX_LOOP
                     /\ GyroFresh(gyro) /\ MeasuredTwist
<1>1. ASSUME IInv, Next, NEW i \in Wheel,
             motor[i] = "brake", motor'[i] = "velocity", pc # "wheels_begin"
      PROVE  Earned
  <2> HIDE DEF Earned
  <2>1. ~WheelsBegin /\ ~SetupBrake /\ ~RosBegin
    BY <1>1 DEF WheelsBegin, SetupBrake, RosBegin, BrakeAll, Exchange, wheelsVars
  <2>2. ~Callback
    BY <1>1 DEF Callback, DropCommand, AcceptCommand, RefuseCommand, on_gyro_calibrate,
                on_time_sync, wheels_set_velocity, wheels_restart_gyro_calibration,
                BrakeAll, Exchange, wheelsVars
  <2>3. /\ ~SpinDone /\ ~HostAlive /\ ~PowerCycle
        /\ ~\E sample \in Samples : sample_imu(sample)
    BY <1>1 DEF SpinDone, HostAlive, PowerCycle, sample_imu, wheels_observe_gyro, wheelsVars
  <2>4. ~\E out \in Outcomes : cmd_vel_watchdog(out) \/ RestartForConnectionLoss(out)
    BY <1>1 DEF cmd_vel_watchdog, RestartForConnectionLoss, BrakeAll, Exchange, wheelsVars
  <2>5. ~Tick
    BY <1>1 DEF Tick, WheelsOlder
  <2>6. PICK sent \in Outcomes, out \in Outcomes, at_rest \in BOOLEAN :
            wheels_update(sent, out, at_rest)
    BY <1>1, <2>1, <2>2, <2>3, <2>4, <2>5 DEF Next, WheelsUpdate
  <2>7. ControlDue /\ ControlOk
    <3>1. ~NotDue /\ ~RepeatBrake(out) /\ ~BrakeStale(out)
      BY <1>1 DEF NotDue, RepeatBrake, BrakeStale, BrakeAll, Exchange, wheelsVars
    <3>2. QED
      BY <2>6, <3>1 DEF wheels_update, SendSpeeds, SendFails
  <2>8. cmd_age < COMMAND_TIMEOUT + MAX_LOOP
    <3>1. cmd_age < COMMAND_TIMEOUT + loop_age /\ loop_age \in 0 .. MAX_LOOP
          /\ cmd_age \in 0 .. COMMAND_TIMEOUT + MAX_LOOP
      BY <1>1, <2>7 DEF IInv, CommandClock, TypeOK, ControlDue, COMMAND_AGE_MAX
    <3>2. QED
      BY <3>1, RosAssumption
  <2>9. QED
    BY <1>1, <2>7, <2>8 DEF Earned, IInv, ControlDue, ControlOk
<1>2. IInv /\ [Next]_vars =>
          [\A i \in Wheel :
              motor[i] = "brake" /\ motor'[i] = "velocity" /\ pc # "wheels_begin"
              => /\ have_cmd_vel /\ cmd_age < COMMAND_TIMEOUT + MAX_LOOP
                 /\ GyroFresh(gyro) /\ MeasuredTwist]_vars
  BY <1>1 DEF Earned
<1>3. QED
  BY <1>2, Invariance, PTL DEF Spec, ReleaseIsEarned

\* Whatever is received, sampled, lost or restarted, a measured bias stands until it is
\* forgotten of a stopped drive (gyro_yaw_observe, wheels_restart_gyro_calibration).
THEOREM BiasStaysFrozen == Spec => BiasIsFrozen
<1> DEFINE Same == /\ gyro'.calibrated
                   /\ gyro'.window.sum = gyro.window.sum /\ gyro'.window.samples = gyro.window.samples
           Frozen == gyro.calibrated => Same \/ (gyro' = gyro_yaw_begin /\ ~motion_enabled')
<1>1. ASSUME IInv, Next, gyro.calibrated
      PROVE  Same \/ (gyro' = gyro_yaw_begin /\ ~motion_enabled')
  <2>0. gyro \in GyroType /\ (gyro' = gyro => Same)
    BY <1>1 DEF IInv, WheelsInv, WheelsTypeOK
  <2>1. CASE WheelsBegin
    BY <1>1, <2>1 DEF WheelsBegin, wheels_begin, IInv, BootIsStopped, Booting
  <2>2. CASE \E out \in Outcomes : on_gyro_calibrate(out)
    BY <2>2 DEF on_gyro_calibrate, wheels_restart_gyro_calibration, BrakeAll, StopMotion
  <2>3. CASE PowerCycle \/ \E out \in Outcomes : RestartForConnectionLoss(out)
    BY <2>3 DEF PowerCycle, RestartForConnectionLoss, Restart, WheelsReset
  <2>4. CASE \E sample \in Samples : sample_imu(sample)
    <3>1. PICK sample \in Samples : sample_imu(sample)
      BY <2>4
    <3>2. CASE UNCHANGED wheelsVars
      BY <2>0, <3>2 DEF wheelsVars
    <3>3. CASE wheels_observe_gyro(sample)
      <4>1. PICK stationary \in BOOLEAN : gyro' = gyro_yaw_observe(gyro, sample.rate, sample.valid, stationary)
        BY <3>3 DEF wheels_observe_gyro
      <4>2. QED
        BY <1>1, <2>0, <4>1, SampleType, BiasStands
    <3>4. QED
      BY <3>1, <3>2, <3>3 DEF sample_imu
  <2>5. CASE Tick
    <3>1. gyro' = GyroOlder(gyro)
      BY <2>5 DEF Tick, WheelsOlder
    <3>2. QED
      BY <1>1, <2>0, <3>1, BiasStands
  <2>6. CASE \E sent, out \in Outcomes, at_rest \in BOOLEAN : WheelsUpdate(sent, out, at_rest)
    BY <2>0, <2>6, UpdateKeepsGyro DEF WheelsUpdate
  <2>7. CASE \/ SetupBrake \/ RosBegin \/ DropCommand \/ on_time_sync \/ SpinDone \/ HostAlive
             \/ \E cmd \in Commands : AcceptCommand(cmd)
             \/ \E cmd \in Commands, out \in Outcomes : RefuseCommand(cmd, out)
             \/ \E out \in Outcomes : cmd_vel_watchdog(out)
    BY <2>0, <2>7 DEF SetupBrake, RosBegin, DropCommand, on_time_sync, SpinDone, HostAlive, AcceptCommand,
                      RefuseCommand, cmd_vel_watchdog, wheels_set_velocity, wheelsVars
  <2>8. QED
    BY <1>1, <2>1, <2>2, <2>3, <2>4, <2>5, <2>6, <2>7 DEF Next, Callback
<1>2. IInv /\ [Next]_vars => [Frozen]_gyro
  <2>1. CASE UNCHANGED vars
    BY <2>1 DEF vars, wheelsVars
  <2>2. QED
    BY <1>1, <2>1
<1>3. QED
  BY <1>2, Invariance, PTL DEF Spec, BiasIsFrozen
\* What is neither a tick, an accepted command nor the control step leaves the feedback
\* and the last control step alone, or ends the motion.
LEMMA OtherCallsKeepClock ==
    ASSUME IInv, [Next]_vars, motion_enabled', ~Tick,
           ~\E cmd \in Commands : AcceptCommand(cmd),
           ~\E sent, out \in Outcomes, at_rest \in BOOLEAN : WheelsUpdate(sent, out, at_rest)
    PROVE  UNCHANGED <<motion_enabled, feedback, update_age>>
<1>1. CASE UNCHANGED vars
  BY <1>1 DEF vars, wheelsVars
<1>2. ~WheelsBegin /\ ~SetupBrake
  BY DEF WheelsBegin, SetupBrake, wheels_begin, BrakeAll, StopMotion, IInv, BootIsStopped, Booting
<1>3. CASE RosBegin \/ SpinDone \/ HostAlive \/ DropCommand \/ on_time_sync
  BY <1>3 DEF RosBegin, SpinDone, HostAlive, DropCommand, on_time_sync, wheelsVars
<1>4. CASE \E out \in Outcomes : cmd_vel_watchdog(out)
  BY <1>4 DEF cmd_vel_watchdog, wheelsVars, BrakeAll, StopMotion
<1>5. CASE \E sample \in Samples : sample_imu(sample)
  BY <1>5 DEF sample_imu, wheels_observe_gyro, wheelsVars
<1>6. ~\E cmd \in Commands, out \in Outcomes : RefuseCommand(cmd, out)
  BY DEF RefuseCommand, BrakeAll, StopMotion
<1>7. ~\E out \in Outcomes : on_gyro_calibrate(out)
  BY DEF on_gyro_calibrate, wheels_restart_gyro_calibration, BrakeAll, StopMotion
<1>8. ~PowerCycle /\ ~\E out \in Outcomes : RestartForConnectionLoss(out)
  BY DEF PowerCycle, RestartForConnectionLoss, Restart, WheelsReset
<1>9. QED
  BY <1>1, <1>2, <1>3, <1>4, <1>5, <1>6, <1>7, <1>8 DEF Next, Callback

\* In a motion no call of the loop renews the feedback but the control step.
LEMMA ClockKept ==
    ASSUME IInv, IInv', FeedbackClock, [Next]_vars
    PROVE  FeedbackClock'
<1>0. WheelsInv
  BY DEF IInv
<1>1. CASE ~motion_enabled'
  BY <1>1 DEF FeedbackClock
<1>2. CASE Tick
  BY <1>0, <1>2, ClockOlder DEF Tick
<1>3. CASE \E cmd \in Commands : AcceptCommand(cmd)
  BY <1>0, <1>3, ClockVelocity DEF AcceptCommand
<1>4. CASE \E sent, out \in Outcomes, at_rest \in BOOLEAN : WheelsUpdate(sent, out, at_rest)
  BY <1>0, <1>4, ClockUpdate DEF WheelsUpdate
<1>5. CASE UNCHANGED <<motion_enabled, feedback, update_age>>
  BY <1>5 DEF FeedbackClock
<1>6. QED
  BY <1>1, <1>2, <1>3, <1>4, <1>5, OtherCallsKeepClock

\* The feedback of a motion grows old with its control step (wheels_set_velocity keeps
\* last_update_us of a motion, and only wheels_update talks to the wheels in one).
THEOREM FeedbackAges == Spec => []FeedbackClock
<1>1. Init => FeedbackClock
  BY DEF Init, WheelsInit, FeedbackClock
<1>2. IInv /\ IInv' /\ FeedbackClock /\ [Next]_vars => FeedbackClock'
  BY ClockKept
<1>3. QED
  BY <1>1, <1>2, Invariance, PTL DEF Spec

\* A stall of the loop ends the motion, idle or not, for any ages and periods
\* (wheels_measured_twist in wheels_update).
THEOREM StallsNoticed == Spec => StallIsNoticed
<1> DEFINE Timely == motion_enabled /\ motion_enabled' /\ update_age # NoUpdate
                         /\ update_age # 0 /\ update_age' = 0
                     => update_age <= FEEDBACK_MAX_AGE
<1>1. ASSUME IInv, FeedbackClock, Next,
             motion_enabled, motion_enabled', update_age # NoUpdate, update_age # 0,
             update_age' = 0
      PROVE  update_age <= FEEDBACK_MAX_AGE
  <2>1. ~Tick
    <3>1. update_age \in 0 .. PROFILE_MAX_DT + 1
      BY <1>1 DEF IInv, WheelsInv, WheelsTypeOK
    <3>2. PROFILE_MAX_DT \in Nat
      BY WheelsAssumption
    <3>3. QED
      BY <1>1, <3>1, <3>2 DEF Tick, WheelsOlder, Older
  <2>2. ~\E cmd \in Commands : AcceptCommand(cmd)
    BY <1>1 DEF AcceptCommand, wheels_set_velocity
  <2>3. PICK sent \in Outcomes, out \in Outcomes, at_rest \in BOOLEAN :
            wheels_update(sent, out, at_rest)
    BY <1>1, <2>1, <2>2, OtherCallsKeepClock DEF WheelsUpdate
  <2>4. QED
    BY <1>1, <2>3, SendIsTimely DEF IInv
<1>2. IInv /\ FeedbackClock /\ [Next]_vars => [Timely]_update_age
  <2>1. CASE UNCHANGED vars
    BY <2>1 DEF vars, wheelsVars
  <2>2. QED
    BY <1>1, <2>1
<1>3. QED
  BY <1>2, Invariance, FeedbackAges, PTL DEF Spec, StallIsNoticed
=============================================================================
