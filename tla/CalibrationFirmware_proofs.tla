--------------------- MODULE CalibrationFirmware_proofs ---------------------
(***************************************************************************)
(* The calibration image moves the robot only under its leases, for any    *)
(* number of wheels, any timeouts with OPERATOR <= RELEASE, and any loop   *)
(* that comes back to its control step within MAX_LOOP.                    *)
(***************************************************************************)
EXTENDS CalibrationFirmware, Wheels_proofs

-----------------------------------------------------------------------------
(* The protocol *)

\* A call that finds no lease over finds every lease alive.
LEMMA LeasesAlive ==
    ASSUME ProtocolTypeOK, Expiry = "none"
    PROVE  /\ bound_in # 0
           /\ session => heartbeat_age < HEARTBEAT
           /\ driving => order_age < OPERATOR
           /\ releasing => order_age < RELEASE
BY ProtocolAssumption DEF Expiry, ProtocolTypeOK

\* calibration_expire ends every motion when a lease is over, and nothing otherwise.
LEMMA ExpireType ==
    ASSUME ProtocolTypeOK, calibration_expire
    PROVE  /\ ProtocolTypeOK'
           /\ Expiry # "none" => ~driving' /\ ~releasing' /\ bound_in' = NoBound
           /\ session' => session
BY DEF calibration_expire, ProtocolTypeOK, SessionNow, DrivingNow, ReleasingNow, BoundNow

\* A line keeps the types of the protocol.
LEMMA CommandType ==
    ASSUME ProtocolTypeOK, NEW line \in Lines, NEW ready \in BOOLEAN, NEW at_rest \in BOOLEAN,
           NEW brake \in BOOLEAN, NEW ok \in BOOLEAN,
           calibration_command(line, ready, at_rest, brake, ok)
    PROVE  ProtocolTypeOK'
<1>1. 0 \in 0 .. HEARTBEAT + SLACK /\ 0 \in 0 .. RELEASE + SLACK
  BY ProtocolAssumption
<1>2. BoundNow \in Nat \cup {NoBound} /\ BOUNDS \subseteq Nat
  BY ProtocolAssumption DEF BoundNow, ProtocolTypeOK
<1>3. SessionNow \in BOOLEAN /\ DrivingNow \in BOOLEAN /\ ReleasingNow \in BOOLEAN
  BY DEF SessionNow, DrivingNow, ReleasingNow, ProtocolTypeOK
<1>4. CASE NothingMore(brake)
  BY <1>2, <1>3, <1>4 DEF NothingMore, ProtocolTypeOK, Actions
<1>5. CASE Stop(line, brake) \/ Hello(line, brake) \/ Calibrate(line, brake)
           \/ DriveRefused(line, ready, brake) \/ ReleaseAtRest(line, brake)
  BY <1>1, <1>3, <1>5 DEF Stop, Hello, Calibrate, DriveRefused, ReleaseAtRest,
                          calibration_stop, ProtocolTypeOK, Actions
<1>6. CASE Heartbeat(line, brake) \/ Set(line, brake) \/ Bound(line, brake)
  BY <1>1, <1>2, <1>3, <1>6 DEF Heartbeat, Set, Bound, ProtocolTypeOK, Actions
<1>7. CASE Drive(line, ready, brake) \/ Release(line, brake)
  BY <1>1, <1>2, <1>3, <1>7 DEF Drive, Release, ProtocolTypeOK, Actions
<1>8. QED
  BY <1>4, <1>5, <1>6, <1>7 DEF calibration_command, Status

\* A line that does not brake takes nothing from a motion under way; one that lets
\* motion go on or begin has a session and no fault; only `calibrate` clears a fault.
LEMMA CommandKeeps ==
    ASSUME ProtocolTypeOK, OrdersAreOfASession, NEW line \in Lines, NEW ready \in BOOLEAN,
           NEW at_rest \in BOOLEAN, NEW brake \in BOOLEAN, NEW ok \in BOOLEAN,
           calibration_command(line, ready, at_rest, brake, ok)
    PROVE  /\ OrdersAreOfASession'
           /\ ~brake => session' = session /\ fault' = fault /\ (Moving => Moving')
           /\ fault' = fault \/ (ok /\ action' = "gyro")
           /\ action' \in {"drive", "drive_zero"} => driving'
           /\ action' = "release" => releasing'
<1> USE DEF OrdersAreOfASession, Moving, SessionNow, DrivingNow, ReleasingNow, ProtocolTypeOK
<1>1. CASE NothingMore(brake)
  BY <1>1 DEF NothingMore
<1>2. CASE Stop(line, brake) \/ Hello(line, brake) \/ DriveRefused(line, ready, brake)
           \/ ReleaseAtRest(line, brake)
  BY <1>2 DEF Stop, Hello, DriveRefused, ReleaseAtRest, calibration_stop
<1>3. CASE ok /\ Calibrate(line, brake)
  BY <1>3 DEF Calibrate, calibration_stop
<1>4. CASE Heartbeat(line, brake) \/ Set(line, brake) \/ Bound(line, brake)
  BY <1>4 DEF Heartbeat, Set, Bound
<1>5. CASE ~Refused(line, at_rest) /\ Drive(line, ready, brake)
  BY <1>5 DEF Drive, Refused, SessionLines
<1>6. CASE Release(line, brake)
  BY <1>6 DEF Release
<1>7. QED
  BY <1>1, <1>2, <1>3, <1>4, <1>5, <1>6 DEF calibration_command, Status

\* What a line leaves of the leases is as old as it found it, or begins anew.
LEMMA CommandTimes ==
    ASSUME ProtocolTypeOK, NEW line \in Lines, NEW ready \in BOOLEAN, NEW at_rest \in BOOLEAN,
           NEW brake \in BOOLEAN, NEW ok \in BOOLEAN,
           calibration_command(line, ready, at_rest, brake, ok)
    PROVE  /\ session' => heartbeat_age' = 0 \/ (session /\ heartbeat_age' = heartbeat_age)
           /\ driving' => order_age' = 0 \/ (driving /\ order_age' = order_age)
           /\ releasing' => order_age' = 0 \/ (releasing /\ order_age' = order_age)
<1>0. /\ (SessionNow => session) /\ (DrivingNow => driving) /\ (ReleasingNow => releasing)
      /\ SessionNow \in BOOLEAN /\ DrivingNow \in BOOLEAN /\ ReleasingNow \in BOOLEAN
  BY DEF SessionNow, DrivingNow, ReleasingNow, ProtocolTypeOK
<1> USE <1>0
<1>1. CASE NothingMore(brake)
  BY <1>1 DEF NothingMore
<1>2. CASE Stop(line, brake) \/ Hello(line, brake) \/ Calibrate(line, brake)
           \/ DriveRefused(line, ready, brake) \/ ReleaseAtRest(line, brake)
  BY <1>2 DEF Stop, Hello, Calibrate, DriveRefused, ReleaseAtRest, calibration_stop
<1>3. CASE Heartbeat(line, brake) \/ Set(line, brake) \/ Bound(line, brake)
  BY <1>3 DEF Heartbeat, Set, Bound
<1>4. CASE Drive(line, ready, brake) \/ Release(line, brake)
  BY <1>4 DEF Drive, Release
<1>5. QED
  BY <1>1, <1>2, <1>3, <1>4 DEF calibration_command, Status

-----------------------------------------------------------------------------
(* The two functions of wheels.c only this image calls *)

\* The probe for lost wheels leaves a stopped drive braked as far as it knows.
LEMMA RetryOfflineInv ==
    ASSUME WheelsInv, NEW answered \in SUBSET Wheel, NEW found \in SUBSET Wheel,
           NEW told \in [Wheel -> {"velocity", "brake"}], NEW out \in Outcomes,
           wheels_retry_offline(answered, found, told, out)
    PROVE  WheelsInv' /\ ~motion_enabled'
<1> USE DEF WheelsInv, wheels_retry_offline
<1>1. ~motion_enabled'
  BY DEF WheelsTypeOK
<1>2. feedback' \in [Wheel -> Feedback]
  BY SaveFeedbackType DEF WheelsTypeOK, Outcomes
<1>3. motor' \in [Wheel -> {"velocity", "brake"}]
  BY DEF WheelsTypeOK
<1>4. online' \in [Wheel -> BOOLEAN] /\ braked' \in [Wheel -> BOOLEAN]
  BY DEF WheelsTypeOK
<1>5. WheelsTypeOK'
  BY <1>2, <1>3, <1>4 DEF WheelsTypeOK
<1>6. ASSUME NEW i \in Wheel, feedback'[i].valid
      PROVE  motor'[i] = "brake"
  <2>1. CASE i \in answered
    BY <1>6, <2>1, SaveFeedbackType DEF Outcomes
  <2>2. CASE i \notin answered
    <3>1. motor[i] = "brake"
      BY <1>6, <2>2 DEF StoppedMeansBraked, WheelsTypeOK
    <3>2. QED
      BY <2>2, <3>1
  <2>3. QED
    BY <2>1, <2>2
<1>7. QED
  BY <1>1, <1>5, <1>6 DEF StoppedMeansBraked, WheelsMoveTogether

\* Settings are taken by a stopped drive only.
LEMMA ConfigureInv ==
    ASSUME WheelsInv, NEW new_lpf \in BOOLEAN, NEW out \in Outcomes,
           wheels_configure_calibration(new_lpf, out)
    PROVE  WheelsInv' /\ ~motion_enabled'
<1>1. CASE new_lpf
  BY <1>1, BrakeAllInv DEF wheels_configure_calibration, wheels_restart_gyro_calibration
<1>2. CASE ~new_lpf
  <2>1. /\ ~motion_enabled /\ shaping' = FALSE
        /\ UNCHANGED <<motor, online, feedback, braked, motion_enabled, requested,
                       update_age, update_in, gyro>>
    BY <1>2 DEF wheels_configure_calibration
  <2>2. QED
    BY <2>1 DEF WheelsInv, WheelsTypeOK, WheelsMoveTogether, StoppedMeansBraked
<1>3. QED
  BY <1>1, <1>2

-----------------------------------------------------------------------------
(* The loop *)

\* A sample the loop can read is one Wheels_proofs speaks of.
LEMMA SampleType == Samples \subseteq [valid : BOOLEAN, quiet : BOOLEAN, rate : Int]
BY FirmwareAssumption DEF Samples

\* brake_all stops the drive, whichever frames are lost.
LEMMA BrakeInv ==
    ASSUME WheelsInv, brake_all
    PROVE  WheelsInv' /\ ~motion_enabled' /\ gyro' = gyro
BY BrakeAllInv DEF brake_all

\* A part of the loop that leaves the motors alone.
LEMMA WheelsSame ==
    ASSUME WheelsInv, UNCHANGED wheelsVars
    PROVE  WheelsInv' /\ motion_enabled' = motion_enabled /\ gyro' = gyro
BY DEF wheelsVars, WheelsInv, WheelsTypeOK, WheelsMoveTogether, StoppedMeansBraked

\* The board powers up in the invariant.
LEMMA InitInv == Init => IInv
<1> SUFFICES ASSUME Init PROVE IInv
  OBVIOUS
<1>1. WheelsInv /\ ~motion_enabled /\ \A i \in Wheel : ~feedback[i].valid
  BY WheelsInitInv DEF Init
<1>2. 0 \in 0 .. HEARTBEAT + SLACK /\ 0 \in 0 .. RELEASE + SLACK /\ 0 \in 0 .. MAX_LOOP
  BY ProtocolAssumption, FirmwareAssumption
<1>3. TypeOK
  BY <1>1, <1>2 DEF Init, ProtocolInit, TypeOK, ProtocolTypeOK, WheelsInv, Parts, Actions
<1>4. QED
  BY <1>1, <1>3 DEF Init, ProtocolInit, IInv, MotionIsLeased, OrdersAreOfASession, Moving,
                    OrderUnderWay, FaultClock, LeaseClock, BootIsStopped

\* main() up to its loop keeps the invariant.
LEMMA BootInv ==
    ASSUME IInv, WheelsBegin \/ SetupBrake
    PROVE  IInv'
<1> USE DEF IInv
<1>1. WheelsInv' /\ ~motion_enabled' /\ gyro' \in {gyro, gyro_yaw_begin}
  <2>1. CASE WheelsBegin
    BY <2>1, BeginInv DEF WheelsBegin, BootIsStopped, Looping, Parts, wheels_begin
  <2>2. CASE SetupBrake
    BY <2>2, BrakeInv DEF SetupBrake
  <2>3. QED
    BY <2>1, <2>2
<1>2. /\ ~session /\ UNCHANGED <<protocolVars, connected, unproven>>
      /\ pc' \in {"brake", "retry"} /\ loop_age' \in 0 .. MAX_LOOP
  BY FirmwareAssumption DEF WheelsBegin, SetupBrake, BootIsStopped, Looping, Parts, TypeOK
<1>3. TypeOK'
  BY <1>1, <1>2 DEF TypeOK, ProtocolTypeOK, protocolVars, WheelsInv, Parts
<1>4. OrdersAreOfASession'
  BY <1>2 DEF OrdersAreOfASession, protocolVars, Moving
<1>5. FaultClock'
  <2>1. ~gyro.calibrated => ~gyro'.calibrated
    BY <1>1 DEF gyro_yaw_begin
  <2>2. pc # "apply"
    BY DEF WheelsBegin, SetupBrake
  <2>3. QED
    BY <1>2, <2>1, <2>2 DEF FaultClock, protocolVars
<1>6. LeaseClock'
  BY <1>2, <1>4 DEF LeaseClock, OrdersAreOfASession, protocolVars, Moving
<1>7. QED
  BY <1>1, <1>2, <1>3, <1>4, <1>5, <1>6
     DEF MotionIsLeased, OrderUnderWay, BootIsStopped, protocolVars, Looping, Parts

\* The parts of the loop that leave the protocol alone.
LEMMA QuietPartsInv ==
    ASSUME IInv, \/ RetryOffline \/ NoSample \/ InputDone \/ CheckNothing
                 \/ \E sample \in Samples : Sample(sample)
    PROVE  IInv'
<1> USE DEF IInv
<1>1. /\ UNCHANGED <<protocolVars, connected, loop_age>> /\ pc \in Looping \ {"apply"}
      /\ pc' \in {"sample", "usb", "control", "retry"}
      /\ pc' = "control" => pc = "input"
      /\ pc = "input" => pc' = "control"
  BY DEF RetryOffline, NoSample, InputDone, CheckNothing, Sample, Looping, Parts
<1>2. /\ WheelsInv' /\ (motion_enabled' => motion_enabled) /\ unproven' \in BOOLEAN
      /\ (gyro.calibrated => gyro'.calibrated) /\ (unproven' => unproven)
      /\ (unproven' /\ ~gyro.calibrated) => ~gyro'.calibrated
  <2>1. CASE RetryOffline
    <3>1. unproven' = unproven /\ unproven \in BOOLEAN
      BY <2>1 DEF RetryOffline, TypeOK
    <3>2. CASE UNCHANGED wheelsVars
      BY <3>1, <3>2, WheelsSame
    <3>3. ASSUME NEW answered \in SUBSET Wheel, NEW found \in SUBSET Wheel,
                 NEW told \in [Wheel -> {"velocity", "brake"}], NEW out \in Outcomes,
                 wheels_retry_offline(answered, found, told, out)
          PROVE  <1>2!:
      <4>1. WheelsInv' /\ ~motion_enabled'
        BY <3>3, RetryOfflineInv
      <4>2. gyro' = gyro
        BY <3>3 DEF wheels_retry_offline
      <4>3. QED
        BY <3>1, <4>1, <4>2
    <3>4. QED
      BY <2>1, <3>2, <3>3 DEF RetryOffline
  <2>2. CASE NoSample \/ InputDone \/ CheckNothing
    <3>1. UNCHANGED <<wheelsVars, unproven>> /\ unproven \in BOOLEAN
      BY <2>2 DEF NoSample, InputDone, CheckNothing, TypeOK
    <3>2. QED
      BY <3>1, WheelsSame
  <2>3. ASSUME NEW sample \in Samples, Sample(sample)
        PROVE  <1>2!:
    <3>1. WheelsInv' /\ motion_enabled' = motion_enabled
      BY <2>3, SampleType, ObserveGyroInv DEF Sample
    <3>2. gyro.calibrated => gyro'.calibrated
      <4>1. sample.valid \in BOOLEAN /\ sample.quiet \in BOOLEAN /\ sample.rate \in Int
        BY SampleType
      <4>2. PICK stationary \in BOOLEAN :
                gyro' = gyro_yaw_observe(gyro, sample.rate, sample.valid, stationary)
        BY <2>3, <4>1 DEF Sample, wheels_observe_gyro
      <4>3. QED
        BY <4>1, <4>2, ObserveKeepsCalibration DEF WheelsInv, WheelsTypeOK
    <3>3. unproven' = (unproven /\ ~(~gyro.calibrated /\ gyro'.calibrated))
      BY <2>3 DEF Sample
    <3>4. unproven' \in BOOLEAN
      BY <3>3
    <3>5. QED
      BY <3>1, <3>2, <3>3, <3>4
  <2>4. QED
    BY <2>1, <2>2, <2>3
<1>3. TypeOK'
  BY <1>1, <1>2 DEF TypeOK, ProtocolTypeOK, protocolVars, WheelsInv, Parts
<1>4. MotionIsLeased'
  BY <1>1, <1>2 DEF MotionIsLeased, protocolVars, Moving
<1>5. OrdersAreOfASession' /\ OrderUnderWay'
  BY <1>1 DEF OrdersAreOfASession, OrderUnderWay, protocolVars, Moving
<1>6. FaultClock'
  BY <1>1, <1>2 DEF FaultClock, protocolVars, Looping, Parts
<1>7. LeaseClock'
  BY <1>1, <1>2 DEF LeaseClock, protocolVars, Moving
<1>8. BootIsStopped'
  BY <1>1 DEF BootIsStopped, Looping, Parts
<1>9. QED
  BY <1>2, <1>3, <1>4, <1>5, <1>6, <1>7, <1>8

\* The USB part keeps the invariant: unplugging ends the session, and a lease that ran
\* out since the last look ends the motion.
LEMMA UsbInv ==
    ASSUME IInv, NEW mounted \in BOOLEAN, Usb(mounted)
    PROVE  IInv'
<1> USE DEF IInv
<1>1. /\ pc = "usb" /\ pc' = "input" /\ connected' \in BOOLEAN
      /\ UNCHANGED <<loop_age, unproven>>
  BY DEF Usb
<1>2. CASE calibration_disconnect /\ brake_all
  <2>1. WheelsInv' /\ ~motion_enabled' /\ gyro' = gyro
    BY <1>2, BrakeInv
  <2>2. /\ session' = FALSE /\ driving' = FALSE /\ releasing' = FALSE /\ bound_in' = NoBound
        /\ UNCHANGED <<fault, heartbeat_age, order_age, action>>
    BY <1>2 DEF calibration_disconnect, calibration_stop
  <2>3. TypeOK'
    BY <1>1, <2>1, <2>2 DEF TypeOK, ProtocolTypeOK, WheelsInv, Parts
  <2>4. QED
    BY <1>1, <2>1, <2>2, <2>3 DEF MotionIsLeased, OrdersAreOfASession, Moving, OrderUnderWay,
                                  FaultClock, LeaseClock, BootIsStopped, Looping, Parts
<1>3. CASE Expiry # "none" /\ calibration_expire /\ brake_all
  <2>1. WheelsInv' /\ ~motion_enabled' /\ gyro' = gyro
    BY <1>3, BrakeInv
  <2>2. /\ ProtocolTypeOK' /\ ~driving' /\ ~releasing' /\ (session' => session)
        /\ UNCHANGED <<fault, heartbeat_age, order_age, action>>
    BY <1>3, ExpireType DEF TypeOK, calibration_expire
  <2>3. TypeOK'
    BY <1>1, <2>1, <2>2 DEF TypeOK, WheelsInv, Parts
  <2>4. session' => heartbeat_age < HEARTBEAT + loop_age
    <3> SUFFICES ASSUME session', ~(heartbeat_age < HEARTBEAT + loop_age) PROVE FALSE
      OBVIOUS
    <3>1. session /\ bound_in = NoBound /\ ~Moving
      BY <2>2 DEF LeaseClock
    <3>2. Expiry = "heartbeat"
      BY <1>3, <3>1 DEF Expiry, NoBound, Moving
    <3>3. QED
      BY <1>3, <3>2 DEF calibration_expire, SessionNow
  <2>5. QED
    BY <1>1, <2>1, <2>2, <2>3, <2>4
       DEF MotionIsLeased, OrdersAreOfASession, Moving, OrderUnderWay, FaultClock, LeaseClock,
           BootIsStopped, Looping, Parts
<1>4. CASE Expiry = "none" /\ UNCHANGED <<wheelsVars, protocolVars>>
  <2>1. WheelsInv' /\ motion_enabled' = motion_enabled /\ gyro' = gyro
    BY <1>4, WheelsSame
  <2>2. TypeOK'
    BY <1>1, <1>4, <2>1 DEF TypeOK, ProtocolTypeOK, protocolVars, WheelsInv, Parts
  <2>3. session => heartbeat_age < HEARTBEAT + loop_age
    BY <1>4, LeasesAlive, ProtocolAssumption, FirmwareAssumption DEF TypeOK, ProtocolTypeOK
  <2>4. QED
    BY <1>1, <1>4, <2>1, <2>2, <2>3
       DEF protocolVars, MotionIsLeased, OrdersAreOfASession, Moving, OrderUnderWay, FaultClock,
           LeaseClock, BootIsStopped, Looping, Parts
<1>5. QED
  BY <1>2, <1>3, <1>4 DEF Usb

\* A line that cannot be read, an order the wheels reject, a step that braked and a release
\* that came to rest all end the motion with the order under way, whatever the fault flag.
LEMMA StopInv ==
    ASSUME IInv, BadLine \/ ApplyFails \/ CheckFault \/ CheckReleased
    PROVE  IInv'
<1> USE DEF IInv
<1>1. /\ driving' = FALSE /\ releasing' = FALSE /\ bound_in' = NoBound
      /\ UNCHANGED <<session, heartbeat_age, order_age, action, connected, loop_age>>
      /\ \/ pc = "input" /\ pc' = "input"
         \/ pc = "apply" /\ pc' = "input" /\ action # "gyro"
         \/ pc = "check" /\ pc' = "retry"
      /\ \/ fault' = TRUE /\ unproven' = TRUE
         \/ UNCHANGED <<fault, unproven>>
  BY DEF BadLine, ApplyFails, CheckFault, CheckReleased, calibration_stop, calibration_fault,
         Rejected
<1>2. WheelsInv' /\ ~motion_enabled' /\ gyro' = gyro
  BY BrakeInv DEF BadLine, ApplyFails, CheckFault, CheckReleased
<1>3. TypeOK'
  BY <1>1, <1>2 DEF TypeOK, ProtocolTypeOK, WheelsInv, Parts
<1>4. FaultClock'
  <2>1. ~(pc = "apply" /\ action = "gyro")
    BY <1>1
  <2>2. unproven => fault \/ ~gyro.calibrated
    BY <2>1 DEF FaultClock
  <2>3. unproven' => fault' \/ ~gyro'.calibrated
    <3>1. CASE fault' = TRUE
      BY <3>1
    <3>2. CASE UNCHANGED <<fault, unproven>>
      BY <1>2, <2>2, <3>2
    <3>3. QED
      BY <1>1, <3>1, <3>2
  <2>4. QED
    BY <2>3 DEF FaultClock
<1>5. LeaseClock'
  BY <1>1, <1>2 DEF LeaseClock, Moving
<1>6. QED
  BY <1>1, <1>2, <1>3, <1>4, <1>5
     DEF MotionIsLeased, OrdersAreOfASession, Moving, OrderUnderWay, BootIsStopped, Looping, Parts

\* A line keeps the invariant: whatever takes the session, the order or the fault from
\* under a motion brakes before anything else.
LEMMA LineInv ==
    ASSUME IInv, NEW line \in Lines, Line(line)
    PROVE  IInv'
<1> USE DEF IInv
<1>1. PICK slow \in BOOLEAN, brake \in BOOLEAN, ok \in BOOLEAN :
          /\ calibration_command(line, Ready, AtRest(slow) /\ ~motion_enabled, brake, ok)
          /\ (brake /\ brake_all) \/ (~brake /\ UNCHANGED wheelsVars)
          /\ pc' = IF ok THEN "apply" ELSE "input"
  BY DEF Line
<1>2. pc = "input" /\ UNCHANGED <<connected, loop_age, unproven>>
  BY DEF Line
<1>3. /\ Ready \in BOOLEAN /\ (AtRest(slow) /\ ~motion_enabled) \in BOOLEAN
      /\ ProtocolTypeOK
  BY DEF Ready, TypeOK, GyroFresh, AtRest
<1>4. /\ OrdersAreOfASession'
      /\ ~brake => session' = session /\ fault' = fault /\ (Moving => Moving')
      /\ fault' = fault \/ (ok /\ action' = "gyro")
      /\ action' \in {"drive", "drive_zero"} => driving'
      /\ action' = "release" => releasing'
  BY <1>1, <1>3, CommandKeeps
<1>5. /\ session' => heartbeat_age' = 0 \/ (session /\ heartbeat_age' = heartbeat_age)
      /\ driving' => order_age' = 0 \/ (driving /\ order_age' = order_age)
      /\ releasing' => order_age' = 0 \/ (releasing /\ order_age' = order_age)
  BY <1>1, <1>3, CommandTimes
<1>6. ProtocolTypeOK'
  BY <1>1, <1>3, CommandType
<1>7. WheelsInv' /\ (motion_enabled' => ~brake /\ motion_enabled) /\ gyro' = gyro
  BY <1>1, BrakeInv, WheelsSame
<1>8. TypeOK'
  BY <1>1, <1>2, <1>6, <1>7 DEF TypeOK, WheelsInv, Parts
<1>9. MotionIsLeased'
  BY <1>2, <1>4, <1>7 DEF MotionIsLeased
<1>10. OrderUnderWay'
  BY <1>4 DEF OrderUnderWay
<1>11. FaultClock'
  BY <1>1, <1>2, <1>4, <1>7 DEF FaultClock
<1>12. LeaseClock'
  <2>1. /\ 0 < HEARTBEAT + loop_age /\ 0 < OPERATOR + loop_age /\ 0 < RELEASE + loop_age
    BY ProtocolAssumption, FirmwareAssumption DEF TypeOK
  <2>2. /\ session => heartbeat_age < HEARTBEAT + loop_age
        /\ driving => order_age < OPERATOR + loop_age
        /\ releasing => order_age < RELEASE + loop_age
    BY <1>2 DEF LeaseClock
  <2>3. session' => heartbeat_age' < HEARTBEAT + loop_age'
    BY <1>2, <1>5, <2>1, <2>2
  <2>4. driving' => order_age' < OPERATOR + loop_age'
    BY <1>2, <1>5, <2>1, <2>2
  <2>5. releasing' => order_age' < RELEASE + loop_age'
    BY <1>2, <1>5, <2>1, <2>2
  <2>6. QED
    BY <2>3, <2>4, <2>5 DEF LeaseClock
<1>13. QED
  BY <1>1, <1>4, <1>7, <1>8, <1>9, <1>10, <1>11, <1>12 DEF BootIsStopped, Looping, Parts

\* What a line asks is done only under the order it gave, and no fault is pending then.
LEMMA ApplyInv ==
    ASSUME IInv, Apply
    PROVE  IInv'
<1> USE DEF IInv
<1>1. /\ pc = "apply" /\ pc' = "reply"
      /\ UNCHANGED <<protocolVars, connected, loop_age, unproven>>
  BY DEF Apply
<1>2. /\ WheelsInv' /\ (motion_enabled' => motion_enabled \/ (Moving /\ GyroFresh(gyro)))
      /\ (unproven /\ ~gyro.calibrated) => ~gyro'.calibrated
      /\ action = "gyro" => ~gyro'.calibrated
  <2>1. CASE action = "none" /\ UNCHANGED wheelsVars
    BY <2>1, WheelsSame
  <2>2. ASSUME NEW out \in Outcomes, wheels_restart_gyro_calibration(out)
        PROVE  WheelsInv' /\ ~motion_enabled' /\ ~gyro'.calibrated
    BY <2>2, BrakeAllInv DEF wheels_restart_gyro_calibration, gyro_yaw_begin
  <2>3. ASSUME NEW out \in Outcomes, action \in {"set", "set_lpf"},
               wheels_configure_calibration(action = "set_lpf", out)
        PROVE  <1>2!:
    <3>1. WheelsInv' /\ ~motion_enabled'
      BY <2>3, ConfigureInv
    <3>2. gyro' = gyro \/ gyro' = gyro_yaw_begin
      BY <2>3 DEF wheels_configure_calibration, wheels_restart_gyro_calibration
    <3>3. QED
      BY <2>3, <3>1, <3>2 DEF gyro_yaw_begin
  <2>4. ASSUME NEW cmd, action \in {"drive", "drive_zero", "release"}, wheels_set_velocity(cmd)
        PROVE  <1>2!:
    <3>1. WheelsInv' /\ gyro' = gyro /\ GyroFresh(gyro)
      BY <2>4, SetVelocityInv DEF wheels_set_velocity, SetVelocityAccepts
    <3>2. Moving
      BY <1>1, <2>4 DEF OrderUnderWay, Moving
    <3>3. QED
      BY <2>4, <3>1, <3>2
  <2>5. QED
    BY <2>1, <2>2, <2>3, <2>4 DEF Apply, Applied
<1>3. TypeOK'
  BY <1>1, <1>2 DEF TypeOK, ProtocolTypeOK, protocolVars, WheelsInv, Parts
<1>4. MotionIsLeased'
  <2> SUFFICES ASSUME motion_enabled'
               PROVE  session /\ Moving /\ ~fault /\ ~unproven /\ gyro'.calibrated
    BY <1>1 DEF MotionIsLeased, protocolVars, Moving
  <2>1. CASE motion_enabled
    BY <1>2, <2>1 DEF MotionIsLeased, WheelsInv
  <2>2. CASE Moving /\ GyroFresh(gyro)
    <3>1. session /\ ~fault
      BY <2>2 DEF OrdersAreOfASession
    <3>2. action # "gyro"
      BY <1>2 DEF WheelsInv
    <3>3. ~unproven
      BY <2>2, <3>1, <3>2 DEF FaultClock, GyroFresh
    <3>4. QED
      BY <1>2, <2>2, <3>1, <3>3 DEF WheelsInv
  <2>3. QED
    BY <1>2, <2>1, <2>2
<1>5. FaultClock'
  BY <1>1, <1>2 DEF FaultClock, protocolVars
<1>6. LeaseClock'
  BY <1>1 DEF LeaseClock, protocolVars
<1>7. QED
  BY <1>1, <1>2, <1>3, <1>4, <1>5, <1>6
     DEF protocolVars, OrdersAreOfASession, Moving, OrderUnderWay, BootIsStopped, Looping, Parts

\* The reply keeps the invariant: a lease that ran out while the line was worked off
\* ends the motion the line may just have begun.
LEMMA ReplyInv ==
    ASSUME IInv, Reply
    PROVE  IInv'
<1> USE DEF IInv
<1>1. pc = "reply" /\ pc' = "input" /\ UNCHANGED <<connected, loop_age, unproven>>
  BY DEF Reply
<1>2. /\ WheelsInv' /\ gyro' = gyro
      /\ motion_enabled' => motion_enabled /\ Expiry = "none"
  BY BrakeInv, WheelsSame DEF Reply, NothingMore
<1>3. /\ session' = SessionNow /\ driving' = DrivingNow /\ releasing' = ReleasingNow
      /\ bound_in' = BoundNow /\ action' = "none"
      /\ UNCHANGED <<fault, heartbeat_age, order_age>>
  BY DEF Reply, NothingMore
<1>4. /\ SessionNow \in BOOLEAN /\ DrivingNow \in BOOLEAN /\ ReleasingNow \in BOOLEAN
      /\ BoundNow \in Nat \cup {NoBound}
      /\ (SessionNow => session) /\ (DrivingNow => driving) /\ (ReleasingNow => releasing)
      /\ Expiry = "none" => SessionNow = session /\ DrivingNow = driving
                            /\ ReleasingNow = releasing
      /\ (DrivingNow \/ ReleasingNow) => (SessionNow = session)
  BY DEF SessionNow, DrivingNow, ReleasingNow, BoundNow, TypeOK, ProtocolTypeOK
<1>5. TypeOK'
  BY <1>1, <1>2, <1>3, <1>4 DEF TypeOK, ProtocolTypeOK, WheelsInv, Parts, Actions
<1>6. MotionIsLeased'
  BY <1>1, <1>2, <1>3, <1>4 DEF MotionIsLeased, Moving
<1>7. OrdersAreOfASession'
  BY <1>3, <1>4 DEF OrdersAreOfASession, Moving
<1>8. LeaseClock'
  BY <1>1, <1>3, <1>4 DEF LeaseClock
<1>9. QED
  BY <1>1, <1>2, <1>3, <1>5, <1>6, <1>7, <1>8
     DEF OrderUnderWay, FaultClock, BootIsStopped, Looping, Parts

\* The control step keeps the invariant, and starts the leases' clock anew.
LEMMA ControlInv ==
    ASSUME IInv, Control
    PROVE  IInv'
<1> USE DEF IInv
<1>1. /\ pc = "control" /\ pc' = "check" /\ loop_age' = 0
      /\ UNCHANGED <<connected, unproven>> /\ loop_age' \in 0 .. MAX_LOOP
  BY FirmwareAssumption DEF Control
<1>2. CASE Expiry # "none" /\ calibration_expire /\ brake_all
  <2>1. WheelsInv' /\ ~motion_enabled' /\ gyro' = gyro
    BY <1>2, BrakeInv
  <2>2. /\ ProtocolTypeOK' /\ ~driving' /\ ~releasing' /\ bound_in' = NoBound
        /\ UNCHANGED <<fault, heartbeat_age, order_age, action>>
    BY <1>2, ExpireType DEF TypeOK, calibration_expire
  <2>3. TypeOK'
    BY <1>1, <2>1, <2>2 DEF TypeOK, WheelsInv, Parts
  <2>4. QED
    BY <1>1, <2>1, <2>2, <2>3
       DEF MotionIsLeased, OrdersAreOfASession, Moving, OrderUnderWay, FaultClock, LeaseClock,
           BootIsStopped, Looping, Parts
<1>3. ASSUME Expiry = "none", NEW sent \in Outcomes, NEW out \in Outcomes,
             NEW at_rest \in BOOLEAN, wheels_update(sent, out, at_rest), UNCHANGED protocolVars
      PROVE  IInv'
  <2>1. WheelsInv' /\ (motion_enabled' => motion_enabled)
    BY <1>3, UpdateInv
  <2>2. gyro' = gyro
    BY <1>3 DEF wheels_update, NotDue, RepeatBrake, BrakeStale, SendSpeeds, SendFails, wheelsVars
  <2>3. TypeOK'
    BY <1>1, <1>3, <2>1 DEF TypeOK, ProtocolTypeOK, protocolVars, WheelsInv, Parts
  <2>4. LeaseClock'
    <3>1. /\ session => heartbeat_age < HEARTBEAT
          /\ driving => order_age < OPERATOR
          /\ releasing => order_age < RELEASE
      BY <1>3, LeasesAlive DEF TypeOK
    <3>2. HEARTBEAT + 0 = HEARTBEAT /\ OPERATOR + 0 = OPERATOR /\ RELEASE + 0 = RELEASE
      BY ProtocolAssumption
    <3>3. QED
      BY <1>1, <1>3, <3>1, <3>2 DEF LeaseClock, protocolVars
  <2>5. QED
    BY <1>1, <1>3, <2>1, <2>2, <2>3, <2>4
       DEF protocolVars, MotionIsLeased, OrdersAreOfASession, Moving, OrderUnderWay, FaultClock,
           BootIsStopped, Looping, Parts
<1>4. QED
  BY <1>2, <1>3 DEF Control

\* A board that is powered up again starts in the invariant, its motors as they were left.
LEMMA PowerInv ==
    ASSUME IInv, PowerCycle
    PROVE  IInv'
<1>1. motor' \in [Wheel -> {"velocity", "brake"}] /\ WheelsReset
  BY DEF PowerCycle, IInv, WheelsInv, WheelsTypeOK
<1>2. WheelsInv' /\ ~motion_enabled' /\ \A i \in Wheel : ~feedback'[i].valid
  BY <1>1, ResetInv
<1>3. 0 \in 0 .. HEARTBEAT + SLACK /\ 0 \in 0 .. RELEASE + SLACK /\ 0 \in 0 .. MAX_LOOP
  BY ProtocolAssumption, FirmwareAssumption
<1>4. TypeOK'
  BY <1>2, <1>3 DEF PowerCycle, ProtocolReset, TypeOK, ProtocolTypeOK, WheelsInv, Parts, Actions
<1>5. QED
  BY <1>2, <1>4 DEF PowerCycle, ProtocolReset, IInv, MotionIsLeased, OrdersAreOfASession, Moving,
                    OrderUnderWay, FaultClock, LeaseClock, BootIsStopped

\* An age that is below its limit on the clock of the loop stays so as both move on.
LEMMA AgeWithLoop ==
    ASSUME NEW age \in Nat, NEW older \in Nat, NEW limit \in Nat, NEW loop \in Nat,
           age < limit + loop, older <= age + 1
    PROVE  older < limit + (loop + 1)
OBVIOUS

\* A tick keeps the invariant.
LEMMA TickInv ==
    ASSUME IInv, Tick
    PROVE  IInv'
<1> USE DEF IInv
<1>1. /\ WheelsInv' /\ motion_enabled' = motion_enabled
      /\ \A i \in Wheel : feedback'[i].valid = feedback[i].valid
  BY WheelsOlderInv DEF Tick
<1>2. /\ heartbeat_age' \in 0 .. HEARTBEAT + SLACK /\ heartbeat_age' <= heartbeat_age + 1
      /\ order_age' \in 0 .. RELEASE + SLACK /\ order_age' <= order_age + 1
  BY ProtocolAssumption DEF Tick, ProtocolOlder, TypeOK, ProtocolTypeOK
<1>3. bound_in' \in Nat \cup {NoBound} /\ (bound_in = NoBound => bound_in' = NoBound)
  BY DEF Tick, ProtocolOlder, TypeOK, ProtocolTypeOK, NoBound
<1>4. loop_age' \in 0 .. MAX_LOOP /\ (pc \in Looping => loop_age' = loop_age + 1)
  BY FirmwareAssumption DEF Tick, TypeOK, Older
<1>5. UNCHANGED <<session, fault, driving, releasing, action, pc, connected, unproven>>
  BY DEF Tick, ProtocolOlder
<1>6. gyro'.calibrated = gyro.calibrated
  BY GyroOlderType DEF Tick, WheelsOlder, WheelsInv, WheelsTypeOK
<1>7. TypeOK'
  BY <1>1, <1>2, <1>3, <1>4, <1>5 DEF TypeOK, ProtocolTypeOK, WheelsInv
<1>8. OrdersAreOfASession' /\ OrderUnderWay' /\ MotionIsLeased' /\ FaultClock'
  BY <1>1, <1>5, <1>6 DEF OrdersAreOfASession, OrderUnderWay, MotionIsLeased, FaultClock, Moving
<1>9. LeaseClock'
  <2>1. CASE ~session
    BY <1>5, <2>1 DEF LeaseClock, OrdersAreOfASession, Moving
  <2>2. CASE session
    <3>1. loop_age' = loop_age + 1
      BY <1>4, <2>2 DEF BootIsStopped
    <3>2. /\ heartbeat_age \in Nat /\ heartbeat_age' \in Nat /\ order_age \in Nat
          /\ order_age' \in Nat /\ loop_age \in Nat /\ HEARTBEAT \in Nat
          /\ OPERATOR \in Nat /\ RELEASE \in Nat
      BY <1>2, ProtocolAssumption, FirmwareAssumption DEF TypeOK, ProtocolTypeOK
    <3>3. heartbeat_age < HEARTBEAT + loop_age => heartbeat_age' < HEARTBEAT + loop_age'
      BY <1>2, <3>1, <3>2, AgeWithLoop
    <3>4. order_age < OPERATOR + loop_age => order_age' < OPERATOR + loop_age'
      BY <1>2, <3>1, <3>2, AgeWithLoop
    <3>5. order_age < RELEASE + loop_age => order_age' < RELEASE + loop_age'
      BY <1>2, <3>1, <3>2, AgeWithLoop
    <3>6. QED
      BY <1>1, <1>3, <1>5, <3>3, <3>4, <3>5 DEF LeaseClock, Moving
  <2>3. QED
    BY <2>1, <2>2
<1>10. QED
  BY <1>1, <1>5, <1>7, <1>8, <1>9 DEF BootIsStopped

\* IInv is inductive.
LEMMA NextInv == IInv /\ [Next]_vars => IInv'
<1> SUFFICES ASSUME IInv, [Next]_vars PROVE IInv'
  OBVIOUS
<1>1. CASE WheelsBegin \/ SetupBrake
  BY <1>1, BootInv
<1>2. CASE \/ RetryOffline \/ NoSample \/ InputDone \/ CheckNothing
           \/ \E sample \in Samples : Sample(sample)
  BY <1>2, QuietPartsInv
<1>3. CASE \E mounted \in BOOLEAN : Usb(mounted)
  BY <1>3, UsbInv
<1>4. CASE BadLine \/ ApplyFails \/ CheckFault \/ CheckReleased
  BY <1>4, StopInv
<1>5. CASE \E line \in Lines : Line(line)
  BY <1>5, LineInv
<1>6. CASE Apply
  BY <1>6, ApplyInv
<1>7. CASE Reply
  BY <1>7, ReplyInv
<1>8. CASE Control
  BY <1>8, ControlInv
<1>9. CASE PowerCycle
  BY <1>9, PowerInv
<1>10. CASE Tick
  BY <1>10, TickInv
<1>11. CASE UNCHANGED vars
  BY <1>11 DEF vars, wheelsVars, protocolVars, IInv, TypeOK, ProtocolTypeOK, MotionIsLeased,
               OrdersAreOfASession, Moving, OrderUnderWay, FaultClock, LeaseClock, BootIsStopped,
               WheelsInv, WheelsTypeOK, WheelsMoveTogether, StoppedMeansBraked
<1>12. QED
  BY <1>1, <1>2, <1>3, <1>4, <1>5, <1>6, <1>7, <1>8, <1>9, <1>10, <1>11 DEF Next, Loop

-----------------------------------------------------------------------------
(* What follows *)

\* The invariant holds of every behaviour of the image.
THEOREM Invariance == Spec => []IInv
BY InitInv, NextInv, PTL DEF Spec

\* Every variable keeps its type.
THEOREM TypeCorrect == Spec => []TypeOK
<1>1. IInv => TypeOK
  BY DEF IInv
<1>2. QED
  BY <1>1, Invariance, PTL

\* Motion is enabled only under a session, an order under way, no fault and a gyro
\* calibrated since the last fault (calibration_command, brake_all, the control loop).
THEOREM MotionLeased == Spec => []MotionIsLeased
<1>1. IInv => MotionIsLeased
  BY DEF IInv
<1>2. QED
  BY <1>1, Invariance, PTL

\* What is true of the current round of the loop is true of the longest one.
LEMMA WithinRound ==
    ASSUME NEW age \in Nat, NEW timeout \in Nat, NEW round \in Nat, NEW longest \in Nat,
           age < timeout + round, round <= longest
    PROVE  age < timeout + longest
OBVIOUS

\* While motion is enabled, no lease is past its limit by more than a round of the loop.
LEMMA MotionInTime == IInv => LeasesInTime
<1> SUFFICES ASSUME IInv, motion_enabled
             PROVE  /\ heartbeat_age < HEARTBEAT + MAX_LOOP
                    /\ driving => order_age < OPERATOR + MAX_LOOP
                    /\ releasing => order_age < RELEASE + MAX_LOOP
  BY DEF LeasesInTime
<1>1. /\ heartbeat_age < HEARTBEAT + loop_age
      /\ driving => order_age < OPERATOR + loop_age
      /\ releasing => order_age < RELEASE + loop_age
  BY DEF IInv, MotionIsLeased, LeaseClock
<1>2. /\ heartbeat_age \in Nat /\ order_age \in Nat /\ loop_age \in Nat /\ MAX_LOOP \in Nat
      /\ loop_age <= MAX_LOOP /\ HEARTBEAT \in Nat /\ OPERATOR \in Nat /\ RELEASE \in Nat
  BY ProtocolAssumption, FirmwareAssumption DEF IInv, TypeOK, ProtocolTypeOK
<1>3. QED
  BY <1>1, <1>2, WithinRound

\* Each lease ends motion in time (calibration_expire, called in every round of main()).
THEOREM LeasesEndInTime == Spec => []LeasesInTime
BY MotionInTime, Invariance, PTL

\* One wheel that fails stops them all in this image too, and a command that is applied
\* after it cannot set the others going (wheels_set_velocity, the send loop of wheels_update).
THEOREM WheelsTogether == Spec => []WheelsMoveTogether
<1>1. IInv => WheelsMoveTogether
  BY DEF IInv, WheelsInv
<1>2. QED
  BY <1>1, Invariance, PTL

\* A stopped wheel that answers is braked, whatever frames were lost (wheels_brake).
THEOREM StoppedBraked == Spec => []StoppedMeansBraked
<1>1. IInv => StoppedMeansBraked
  BY DEF IInv, WheelsInv
<1>2. QED
  BY <1>1, Invariance, PTL

\* Every control step that sends a setpoint finds the four leases alive (the last
\* calibration_expire of the round comes right before wheels_update).
THEOREM EverySetpointLeased == Spec => SetpointsAreLeased
<1>1. ASSUME IInv, Next, motion_enabled, update_age # 0, update_age' = 0
      PROVE  Leased
  <2>0. NoUpdate # 0
    BY DEF NoUpdate
  <2>4. ~brake_all
    BY <1>1, <2>0 DEF brake_all, BrakeAll, StopMotion
  <2>1. ~WheelsBegin /\ ~SetupBrake /\ ~PowerCycle
    <3>1. ~WheelsBegin
      BY <1>1 DEF WheelsBegin, wheels_begin
    <3>2. ~SetupBrake
      BY <2>4 DEF SetupBrake
    <3>3. ~PowerCycle
      BY <1>1, <2>0 DEF PowerCycle, WheelsReset
    <3>4. QED
      BY <3>1, <3>2, <3>3
  <2>2. ~Tick
    <3>1. update_age = NoUpdate \/ update_age \in 1 .. PROFILE_MAX_DT + 1
      BY <1>1, WheelsAssumption DEF IInv, WheelsInv, WheelsTypeOK
    <3>2. update_age \in 1 .. PROFILE_MAX_DT + 1 => Older(update_age, PROFILE_MAX_DT + 1) # 0
      BY WheelsAssumption DEF Older
    <3>3. QED
      BY <1>1, <2>0, <3>1, <3>2 DEF Tick, WheelsOlder
  <2>3. /\ ~RetryOffline /\ ~NoSample /\ ~InputDone /\ ~CheckNothing
        /\ ~\E sample \in Samples : Sample(sample)
    BY <1>1 DEF RetryOffline, NoSample, InputDone, CheckNothing, Sample, wheelsVars,
                wheels_observe_gyro, wheels_retry_offline
  <2>5. /\ ~BadLine /\ ~ApplyFails /\ ~CheckFault /\ ~CheckReleased /\ ~Reply
        /\ ~\E mounted \in BOOLEAN : Usb(mounted)
        /\ ~\E line \in Lines : Line(line)
    BY <1>1, <2>4 DEF BadLine, ApplyFails, CheckFault, CheckReleased, Reply, Usb, Line, wheelsVars
  <2>6. ~Apply
    <3>1. ~\E cmd \in {"move", "zero"} : wheels_set_velocity(cmd)
      BY <1>1 DEF wheels_set_velocity, NoUpdate
    <3>2. ~\E out \in Outcomes : wheels_restart_gyro_calibration(out)
      BY <1>1 DEF wheels_restart_gyro_calibration, BrakeAll, StopMotion, NoUpdate
    <3>3. ~\E out \in Outcomes : wheels_configure_calibration(action = "set_lpf", out)
      BY <1>1 DEF wheels_configure_calibration
    <3>4. QED
      BY <1>1, <3>1, <3>2, <3>3 DEF Apply, Applied, wheelsVars
  <2>7. Control
    BY <1>1, <2>1, <2>2, <2>3, <2>5, <2>6 DEF Next, Loop
  <2>8. Expiry = "none"
    BY <2>4, <2>7 DEF Control
  <2>9. motion_enabled => session
    BY <1>1 DEF IInv, MotionIsLeased
  <2>10. QED
    BY <1>1, <2>8, <2>9, LeasesAlive DEF Leased, IInv, TypeOK
<1>2. IInv /\ [Next]_vars => [motion_enabled /\ update_age # 0 /\ update_age' = 0 => Leased]_vars
  BY <1>1
<1>3. QED
  BY <1>2, Invariance, PTL DEF Spec, SetpointsAreLeased

\* Outside a tick, a motion that is under way afterwards was begun in this step, or goes
\* on with the age its order had.
LEMMA OrdersBeginOrGoOn ==
    ASSUME IInv, Next, ~Tick, Moving'
    PROVE  order_age' = 0 \/ (Moving /\ order_age' = order_age)
<1> USE DEF Moving
<1>1. ProtocolTypeOK
  BY DEF IInv, TypeOK
<1>2. CASE UNCHANGED protocolVars
  BY <1>2 DEF protocolVars
<1>3. CASE calibration_expire
  BY <1>1, <1>3 DEF calibration_expire, DrivingNow, ReleasingNow, ProtocolTypeOK
<1>4. CASE calibration_stop
  BY <1>4 DEF calibration_stop
<1>5. CASE \E line \in Lines : Line(line)
  <2>1. PICK line \in Lines, slow \in BOOLEAN, brake \in BOOLEAN, ok \in BOOLEAN :
            calibration_command(line, Ready, AtRest(slow) /\ ~motion_enabled, brake, ok)
    BY <1>5 DEF Line
  <2>2. Ready \in BOOLEAN /\ (AtRest(slow) /\ ~motion_enabled) \in BOOLEAN
    BY DEF Ready, GyroFresh, AtRest
  <2>3. /\ driving' => order_age' = 0 \/ (driving /\ order_age' = order_age)
        /\ releasing' => order_age' = 0 \/ (releasing /\ order_age' = order_age)
    BY <1>1, <2>1, <2>2, CommandTimes
  <2>4. QED
    BY <2>3
<1>6. CASE Reply
  BY <1>1, <1>6 DEF Reply, NothingMore, DrivingNow, ReleasingNow, ProtocolTypeOK
<1>7. ~PowerCycle
  BY DEF PowerCycle, ProtocolReset
<1>8. CASE Usb(TRUE) \/ Usb(FALSE)
  BY <1>2, <1>3, <1>4, <1>8 DEF Usb, calibration_disconnect
<1>9. CASE BadLine \/ ApplyFails \/ CheckFault \/ CheckReleased
  BY <1>4, <1>9 DEF BadLine, ApplyFails, CheckFault, CheckReleased, calibration_fault
<1>10. CASE Control
  BY <1>2, <1>3, <1>10 DEF Control
<1>11. CASE \/ WheelsBegin \/ SetupBrake \/ RetryOffline \/ NoSample \/ Apply \/ InputDone
            \/ CheckNothing \/ \E sample \in Samples : Sample(sample)
  BY <1>2, <1>11 DEF WheelsBegin, SetupBrake, RetryOffline, NoSample, Apply, InputDone,
                     CheckNothing, Sample
<1>12. QED
  BY <1>5, <1>6, <1>7, <1>8, <1>9, <1>10, <1>11 DEF Next, Loop

\* Every step of the image is an order, a stop, the passing of time, or nothing.
LEMMA StepIsDeadman ==
    ASSUME IInv, IInv', Next
    PROVE  DeadmanSwitch!Next \/ UNCHANGED <<Moving, order_age>>
<1>0. /\ order_age \in 0 .. RELEASE + MAX_LOOP /\ order_age' \in 0 .. RELEASE + MAX_LOOP
      /\ Moving \in BOOLEAN /\ Moving' \in BOOLEAN
  BY FirmwareAssumption DEF IInv, TypeOK, ProtocolTypeOK, Moving
<1>1. CASE ~Moving'
  BY <1>0, <1>1 DEF DeadmanSwitch!Next, DeadmanSwitch!Stop
<1>2. CASE Moving' /\ Tick
  <2>1. order_age' = IF order_age < RELEASE + MAX_LOOP THEN order_age + 1
                     ELSE RELEASE + MAX_LOOP
    <3>1. order_age' = IF order_age < RELEASE + MAX_LOOP THEN order_age + 1 ELSE order_age
      BY <1>2, FirmwareAssumption DEF Tick, ProtocolOlder
    <3>2. order_age < RELEASE + MAX_LOOP \/ order_age = RELEASE + MAX_LOOP
      BY <1>0, ProtocolAssumption, FirmwareAssumption
    <3>3. QED
      BY <3>1, <3>2
  <2>2. Moving' = Moving
    BY <1>2 DEF Tick, ProtocolOlder, Moving
  <2>3. order_age' < RELEASE + MAX_LOOP
    <3>1. /\ driving' => order_age' < OPERATOR + loop_age'
          /\ releasing' => order_age' < RELEASE + loop_age'
          /\ loop_age' \in 0 .. MAX_LOOP
      BY DEF IInv, LeaseClock, TypeOK
    <3>2. /\ order_age' \in Nat /\ loop_age' \in Nat /\ MAX_LOOP \in Nat
          /\ loop_age' <= MAX_LOOP /\ OPERATOR \in Nat /\ RELEASE \in Nat
          /\ OPERATOR <= RELEASE
      BY <1>0, <3>1, ProtocolAssumption, FirmwareAssumption
    <3>3. OPERATOR + MAX_LOOP <= RELEASE + MAX_LOOP
      BY <3>2
    <3>4. CASE driving'
      <4>1. order_age' < OPERATOR + MAX_LOOP
        BY <3>1, <3>2, <3>4, WithinRound
      <4>2. QED
        BY <3>2, <3>3, <4>1
    <3>5. CASE releasing'
      BY <3>1, <3>2, <3>5, WithinRound
    <3>6. QED
      BY <1>2, <3>4, <3>5 DEF Moving
  <2>4. QED
    BY <2>1, <2>2, <2>3 DEF DeadmanSwitch!Next, DeadmanSwitch!Pass
<1>3. CASE Moving' /\ ~Tick
  <2>1. CASE order_age' = 0
    BY <1>0, <1>3, <2>1 DEF DeadmanSwitch!Next, DeadmanSwitch!Order
  <2>2. CASE Moving /\ order_age' = order_age
    BY <1>0, <1>3, <2>2
  <2>3. QED
    BY <1>3, <2>1, <2>2, OrdersBeginOrGoOn
<1>4. QED
  BY <1>0, <1>1, <1>2, <1>3

\* The drive of the calibration image is a dead man's switch too: Deadman with LIMIT set
\* to the longest release plus one round of the loop (CALIBRATION_RELEASE_US).
THEOREM DriveIsDeadman == Spec => ImplementsDeadman
<1>1. Init => DeadmanSwitch!Init
  BY ProtocolAssumption, FirmwareAssumption DEF Init, ProtocolInit, Moving, DeadmanSwitch!Init
<1>2. IInv /\ IInv' /\ [Next]_vars => [DeadmanSwitch!Next]_(DeadmanSwitch!deadmanVars)
  <2>1. CASE UNCHANGED vars
    BY <2>1 DEF vars, protocolVars, Moving, DeadmanSwitch!deadmanVars
  <2>2. QED
    BY <2>1, StepIsDeadman DEF DeadmanSwitch!deadmanVars
<1>3. QED
  BY <1>1, <1>2, Invariance, PTL DEF Spec, ImplementsDeadman, DeadmanSwitch!Spec

\* A gyro step of this image: a known bias stands, or the drive that knew it is stopped
\* (wheels_configure_calibration, wheels_restart_gyro_calibration).
THEOREM BiasStaysFrozen == Spec => BiasIsFrozen
<1> DEFINE Same == /\ gyro'.calibrated
                   /\ gyro'.window.sum = gyro.window.sum /\ gyro'.window.samples = gyro.window.samples
           Frozen == gyro.calibrated => Same \/ (gyro' = gyro_yaw_begin /\ ~motion_enabled')
<1>1. ASSUME IInv, Next, gyro.calibrated
      PROVE  Same \/ (gyro' = gyro_yaw_begin /\ ~motion_enabled')
  <2>0. gyro \in GyroType /\ (gyro' = gyro => Same)
    BY <1>1 DEF IInv, WheelsInv, WheelsTypeOK
  <2>1. CASE WheelsBegin
    BY <1>1, <2>1 DEF WheelsBegin, wheels_begin, IInv, BootIsStopped, Looping
  <2>2. CASE PowerCycle
    BY <2>2 DEF PowerCycle, WheelsReset
  <2>3. CASE \E sample \in Samples : Sample(sample)
    <3>1. PICK sample \in Samples : wheels_observe_gyro(sample)
      BY <2>3 DEF Sample
    <3>2. PICK stationary \in BOOLEAN : gyro' = gyro_yaw_observe(gyro, sample.rate, sample.valid, stationary)
      BY <3>1 DEF wheels_observe_gyro
    <3>3. QED
      BY <1>1, <2>0, <3>2, SampleType, BiasStands
  <2>4. CASE Tick
    <3>1. gyro' = GyroOlder(gyro)
      BY <2>4 DEF Tick, WheelsOlder
    <3>2. QED
      BY <1>1, <2>0, <3>1, BiasStands
  <2>5. CASE Apply
    <3>1. \/ gyro' = gyro
          \/ \E out \in Outcomes : wheels_restart_gyro_calibration(out)
      BY <2>5 DEF Apply, Applied, wheels_configure_calibration, wheels_set_velocity, wheelsVars
    <3>2. QED
      BY <2>0, <3>1 DEF wheels_restart_gyro_calibration, BrakeAll, StopMotion
  <2>6. CASE Control
    BY <2>0, <2>6, UpdateKeepsGyro DEF Control, brake_all
  <2>7. CASE \/ SetupBrake \/ RetryOffline \/ NoSample \/ BadLine \/ ApplyFails \/ Reply \/ InputDone
             \/ CheckFault \/ CheckReleased \/ CheckNothing
             \/ \E mounted \in BOOLEAN : Usb(mounted)
             \/ \E line \in Lines : Line(line)
    BY <2>0, <2>7 DEF SetupBrake, RetryOffline, NoSample, BadLine, ApplyFails, Reply, InputDone, CheckFault,
                      CheckReleased, CheckNothing, Usb, Line, brake_all, wheels_retry_offline, wheelsVars
  <2>8. QED
    BY <1>1, <2>1, <2>2, <2>3, <2>4, <2>5, <2>6, <2>7 DEF Next, Loop
<1>2. IInv /\ [Next]_vars => [Frozen]_gyro
  <2>1. CASE UNCHANGED vars
    BY <2>1 DEF vars, wheelsVars
  <2>2. QED
    BY <1>1, <2>1
<1>3. QED
  BY <1>2, Invariance, PTL DEF Spec, BiasIsFrozen
\* What is neither a tick, a velocity order nor the control step leaves the feedback and
\* the last control step alone, or ends the motion.
LEMMA OtherCallsKeepClock ==
    ASSUME IInv, [Next]_vars, motion_enabled', ~Tick,
           ~\E cmd \in {"move", "zero"} : wheels_set_velocity(cmd),
           ~\E sent, out \in Outcomes, at_rest \in BOOLEAN : wheels_update(sent, out, at_rest)
    PROVE  UNCHANGED <<motion_enabled, feedback, update_age>>
<1>1. ~brake_all
  BY DEF brake_all, BrakeAll, StopMotion
<1>2. CASE UNCHANGED wheelsVars
  BY <1>2 DEF wheelsVars
<1>3. ~WheelsBegin /\ ~SetupBrake /\ ~PowerCycle
  BY <1>1 DEF WheelsBegin, SetupBrake, PowerCycle, wheels_begin, WheelsReset, IInv, BootIsStopped,
              Looping
<1>4. CASE \E sample \in Samples : Sample(sample)
  BY <1>4 DEF Sample, wheels_observe_gyro
<1>5. CASE RetryOffline
  BY <1>2, <1>5 DEF RetryOffline, wheels_retry_offline
<1>6. CASE NoSample \/ InputDone \/ CheckNothing \/ UNCHANGED vars
  BY <1>2, <1>6 DEF NoSample, InputDone, CheckNothing, vars
<1>7. CASE \/ BadLine \/ ApplyFails \/ CheckFault \/ CheckReleased \/ Reply
           \/ \E mounted \in BOOLEAN : Usb(mounted)
           \/ \E line \in Lines : Line(line)
  BY <1>1, <1>2, <1>7 DEF BadLine, ApplyFails, CheckFault, CheckReleased, Reply, Usb, Line
<1>8. CASE Control
  BY <1>1, <1>8 DEF Control
<1>9. CASE Apply
  <2>1. \A out \in Outcomes, new_lpf \in BOOLEAN :
            ~wheels_restart_gyro_calibration(out) /\ ~wheels_configure_calibration(new_lpf, out)
    BY DEF wheels_restart_gyro_calibration, wheels_configure_calibration, BrakeAll, StopMotion
  <2>2. QED
    BY <1>2, <1>9, <2>1 DEF Apply, Applied
<1>10. QED
  BY <1>3, <1>4, <1>5, <1>6, <1>7, <1>8, <1>9 DEF Next, Loop

\* In a motion no part of the loop renews the feedback but the control step.
LEMMA ClockKept ==
    ASSUME IInv, IInv', FeedbackClock, [Next]_vars
    PROVE  FeedbackClock'
<1>0. WheelsInv
  BY DEF IInv
<1>1. CASE ~motion_enabled'
  BY <1>1 DEF FeedbackClock
<1>2. CASE Tick
  BY <1>0, <1>2, ClockOlder DEF Tick
<1>3. CASE \E cmd \in {"move", "zero"} : wheels_set_velocity(cmd)
  BY <1>0, <1>3, ClockVelocity
<1>4. CASE \E sent, out \in Outcomes, at_rest \in BOOLEAN : wheels_update(sent, out, at_rest)
  BY <1>0, <1>4, ClockUpdate
<1>5. CASE UNCHANGED <<motion_enabled, feedback, update_age>>
  BY <1>5 DEF FeedbackClock
<1>6. QED
  BY <1>1, <1>2, <1>3, <1>4, <1>5, OtherCallsKeepClock

\* The feedback of a motion grows old with its control step (wheels_set_velocity keeps
\* last_update_us of a motion, and only wheels_update talks to the wheels in one).
THEOREM FeedbackAges == Spec => []FeedbackClock
<1>1. Init => FeedbackClock
  BY DEF Init, WheelsInit, FeedbackClock
<1>2. IInv /\ IInv' /\ FeedbackClock /\ [Next]_vars => FeedbackClock'
  BY ClockKept
<1>3. QED
  BY <1>1, <1>2, Invariance, PTL DEF Spec

\* A stall of the loop ends the motion of this image too, idle or not
\* (wheels_measured_twist in wheels_update).
THEOREM StallsNoticed == Spec => StallIsNoticed
<1> DEFINE Timely == motion_enabled /\ motion_enabled' /\ update_age # NoUpdate
                         /\ update_age # 0 /\ update_age' = 0
                     => update_age <= FEEDBACK_MAX_AGE
<1>1. ASSUME IInv, FeedbackClock, Next,
             motion_enabled, motion_enabled', update_age # NoUpdate, update_age # 0,
             update_age' = 0
      PROVE  update_age <= FEEDBACK_MAX_AGE
  <2>1. ~Tick
    <3>1. update_age \in 0 .. PROFILE_MAX_DT + 1 /\ PROFILE_MAX_DT \in Nat
      BY <1>1, WheelsAssumption DEF IInv, WheelsInv, WheelsTypeOK
    <3>2. QED
      BY <1>1, <3>1 DEF Tick, WheelsOlder, Older
  <2>2. ~\E cmd \in {"move", "zero"} : wheels_set_velocity(cmd)
    BY <1>1 DEF wheels_set_velocity
  <2>3. PICK sent \in Outcomes, out \in Outcomes, at_rest \in BOOLEAN :
            wheels_update(sent, out, at_rest)
    BY <1>1, <2>1, <2>2, OtherCallsKeepClock
  <2>4. QED
    BY <1>1, <2>3, SendIsTimely DEF IInv
<1>2. IInv /\ FeedbackClock /\ [Next]_vars => [Timely]_update_age
  <2>1. CASE UNCHANGED vars
    BY <2>1 DEF vars, wheelsVars
  <2>2. QED
    BY <1>1, <2>1
<1>3. QED
  BY <1>2, Invariance, FeedbackAges, PTL DEF Spec, StallIsNoticed
=============================================================================
