------------------------- MODULE CalibrationFirmware -------------------------
(***************************************************************************)
(* The calibration image's main loop (calibration_firmware.c): Wheels      *)
(* driven by CalibrationProtocol over a USB serial line.                   *)
(*                                                                         *)
(* pc says which part of the loop comes next.  The clock ticks between any *)
(* two parts, also while a line is being worked off: between the moment it *)
(* is judged and the moment the motors are told.  The loop comes back to   *)
(* its control step within MAX_LOOP ticks.                                 *)
(***************************************************************************)
EXTENDS Wheels, CalibrationProtocol

CONSTANTS
    MAX_LOOP,   \* assumed: longest time between two control steps
    RATES       \* the yaw rates a sample can report

ASSUME FirmwareAssumption ==
    /\ MAX_LOOP \in Nat
    /\ SLACK = MAX_LOOP
    /\ RATES \subseteq Int

VARIABLES
    pc,          \* the next part of main()
    connected,   \* the USB device was mounted when last looked at
    loop_age,    \* time since the last control step (observer, bounds Tick)
    unproven     \* observer: no gyro calibration was finished since the last fault

vars == <<wheelsVars, protocolVars, pc, connected, loop_age, unproven>>

Parts == {"wheels_begin", "brake", "retry", "sample", "usb", "input", "apply", "reply",
          "control", "check"}
Looping == Parts \ {"wheels_begin", "brake"}
Samples == [valid : BOOLEAN, quiet : BOOLEAN, rate : RATES]

TypeOK ==
    /\ WheelsTypeOK
    /\ ProtocolTypeOK
    /\ pc \in Parts
    /\ connected \in BOOLEAN
    /\ loop_age \in 0 .. MAX_LOOP
    /\ unproven \in BOOLEAN

Init ==
    /\ WheelsInit
    /\ ProtocolInit
    /\ pc = "wheels_begin"
    /\ connected = FALSE
    /\ loop_age = 0
    /\ unproven = FALSE

\* y.fresh && fresh && !fault of observe_state.
Ready == GyroFresh(gyro) /\ MeasuredTwist /\ ~fault

brake_all == UNCHANGED gyro /\ \E out \in Outcomes : BrakeAll(out)

-----------------------------------------------------------------------------
(* Boot *)

WheelsBegin ==
    /\ pc = "wheels_begin"
    /\ pc' = "brake"
    /\ \E found \in SUBSET Wheel : \E set \in SUBSET found : wheels_begin(found, set)
    /\ UNCHANGED <<protocolVars, connected, loop_age, unproven>>

\* brake_all, then the startup configuration, which changes no state kept here.
SetupBrake ==
    /\ pc = "brake"
    /\ pc' = "retry"
    /\ brake_all
    /\ loop_age' = 0
    /\ UNCHANGED <<protocolVars, connected, unproven>>

-----------------------------------------------------------------------------
(* The loop, part by part *)

\* The probe for lost wheels; its own 1 Hz timer is left to chance.
RetryOffline ==
    /\ pc = "retry"
    /\ pc' = "sample"
    /\ \/ UNCHANGED wheelsVars
       \/ /\ ~Moving
          /\ \E answered, found \in SUBSET Wheel, told \in [Wheel -> {"velocity", "brake"}],
                out \in Outcomes : wheels_retry_offline(answered, found, told, out)
    /\ UNCHANGED <<protocolVars, connected, loop_age, unproven>>

Sample(sample) ==
    /\ pc = "sample"
    /\ pc' = "usb"
    /\ wheels_observe_gyro(sample)
    /\ unproven' = (unproven /\ ~(~gyro.calibrated /\ gyro'.calibrated))
    /\ UNCHANGED <<protocolVars, connected, loop_age>>

\* No sample is due.
NoSample ==
    /\ pc = "sample"
    /\ pc' = "usb"
    /\ UNCHANGED <<wheelsVars, protocolVars, connected, loop_age, unproven>>

\* The cable was pulled; or else, the first look at the leases in this round.
Usb(mounted) ==
    /\ pc = "usb"
    /\ pc' = "input"
    /\ connected' = mounted
    /\ \/ /\ connected /\ ~mounted
          /\ calibration_disconnect
          /\ brake_all
       \/ /\ ~(connected /\ ~mounted)
          /\ Expiry # "none"
          /\ calibration_expire
          /\ brake_all
       \/ /\ ~(connected /\ ~mounted)
          /\ Expiry = "none"
          /\ UNCHANGED <<wheelsVars, protocolVars>>
    /\ UNCHANGED <<loop_age, unproven>>

\* A line longer than the buffer or with a control character in it: stop.
BadLine ==
    /\ pc = "input"
    /\ calibration_stop
    /\ brake_all
    /\ UNCHANGED <<session, fault, heartbeat_age, order_age, action, pc, connected,
                   loop_age, unproven>>

\* A line is judged, and the motors are braked before anything else if it says so.
Line(line) ==
    /\ pc = "input"
    /\ \E slow, brake, ok \in BOOLEAN :
           /\ calibration_command(line, Ready, AtRest(slow) /\ ~motion_enabled, brake, ok)
           /\ \/ brake /\ brake_all
              \/ ~brake /\ UNCHANGED wheelsVars
           /\ pc' = IF ok THEN "apply" ELSE "input"
    /\ UNCHANGED <<connected, loop_age, unproven>>

\* What the line asks of the wheels is done.
Applied ==
    \/ action = "none" /\ UNCHANGED wheelsVars
    \/ action = "gyro" /\ \E out \in Outcomes : wheels_restart_gyro_calibration(out)
    \/ action \in {"set", "set_lpf"}
       /\ \E out \in Outcomes : wheels_configure_calibration(action = "set_lpf", out)
    \/ action = "drive" /\ wheels_set_velocity("move")
    \/ action \in {"drive_zero", "release"} /\ wheels_set_velocity("zero")

\* It was allowed when the line was judged, and no longer is.
Rejected ==
    \/ action \in {"set", "set_lpf"} /\ ~(AtRest(TRUE) /\ ~motion_enabled)
    \/ action \in {"drive", "drive_zero", "release"} /\ ~SetVelocityAccepts("move")

Apply ==
    /\ pc = "apply"
    /\ Applied
    /\ pc' = "reply"
    /\ UNCHANGED <<protocolVars, connected, loop_age, unproven>>

ApplyFails ==
    /\ pc = "apply"
    /\ Rejected
    /\ calibration_fault
    /\ brake_all
    /\ unproven' = TRUE
    /\ pc' = "input"
    /\ UNCHANGED <<connected, loop_age>>

\* The reply to a line that was not refused is built by a `status` line, which looks at
\* the leases once more.
Reply ==
    /\ pc = "reply"
    /\ pc' = "input"
    /\ \/ NothingMore(TRUE) /\ brake_all
       \/ NothingMore(FALSE) /\ UNCHANGED wheelsVars
    /\ UNCHANGED <<connected, loop_age, unproven>>

InputDone ==
    /\ pc = "input"
    /\ pc' = "control"
    /\ UNCHANGED <<wheelsVars, protocolVars, connected, loop_age, unproven>>

\* The last look at the leases, then wheels_update, which is not due after a brake.
Control ==
    /\ pc = "control"
    /\ pc' = "check"
    /\ loop_age' = 0
    /\ \/ Expiry # "none" /\ calibration_expire /\ brake_all
       \/ /\ Expiry = "none"
          /\ \E sent, out \in Outcomes, at_rest \in BOOLEAN : wheels_update(sent, out, at_rest)
          /\ UNCHANGED protocolVars
    /\ UNCHANGED <<connected, unproven>>

\* wheels_update braked on its own account: the fault is latched.
CheckFault ==
    /\ pc = "check"
    /\ Moving /\ ~motion_enabled
    /\ pc' = "retry"
    /\ calibration_fault
    /\ brake_all
    /\ unproven' = TRUE
    /\ UNCHANGED <<connected, loop_age>>

CheckReleased ==
    /\ pc = "check"
    /\ releasing /\ motion_enabled /\ AtRest(TRUE)
    /\ pc' = "retry"
    /\ calibration_stop
    /\ brake_all
    /\ UNCHANGED <<session, fault, heartbeat_age, order_age, action, connected,
                   loop_age, unproven>>

CheckNothing ==
    /\ pc = "check"
    /\ Moving => motion_enabled
    /\ ~(releasing /\ AtRest(FALSE))
    /\ pc' = "retry"
    /\ UNCHANGED <<wheelsVars, protocolVars, connected, loop_age, unproven>>

-----------------------------------------------------------------------------
(* The world *)

PowerCycle ==
    /\ WheelsReset
    /\ ProtocolReset
    /\ pc' = "wheels_begin"
    /\ connected' = FALSE
    /\ loop_age' = 0
    /\ unproven' = FALSE
    /\ UNCHANGED motor

Tick ==
    /\ pc \in Looping => loop_age < MAX_LOOP
    /\ WheelsOlder
    /\ ProtocolOlder
    /\ loop_age' = Older(loop_age, MAX_LOOP)
    /\ UNCHANGED <<pc, connected, unproven>>

Loop ==
    \/ RetryOffline
    \/ \E sample \in Samples : Sample(sample)
    \/ NoSample
    \/ \E mounted \in BOOLEAN : Usb(mounted)
    \/ BadLine
    \/ \E line \in Lines : Line(line)
    \/ Apply \/ ApplyFails
    \/ Reply
    \/ InputDone
    \/ Control
    \/ CheckFault \/ CheckReleased \/ CheckNothing

Next ==
    \/ WheelsBegin
    \/ SetupBrake
    \/ Loop
    \/ PowerCycle
    \/ Tick

Spec == Init /\ [][Next]_vars

-----------------------------------------------------------------------------
(* What the calibration image promises. *)

\* Motion is enabled only under a session, an order that is under way, no fault, and a
\* gyro calibrated since the last fault: whatever line, expiry, unplugging, rejection or
\* failing wheel stopped the one stopped the other.
MotionIsLeased ==
    motion_enabled => session /\ Moving /\ ~fault /\ ~unproven /\ gyro.calibrated

\* Each lease ends motion in time: no mix of heartbeats, status lines, repeated orders
\* and slow lines keeps the drive alive past the lease that nobody renewed.
LeasesInTime ==
    motion_enabled =>
        /\ heartbeat_age < HEARTBEAT + MAX_LOOP
        /\ driving => order_age < OPERATOR + MAX_LOOP
        /\ releasing => order_age < RELEASE + MAX_LOOP

Leased ==
    /\ session /\ heartbeat_age < HEARTBEAT
    /\ driving => order_age < OPERATOR
    /\ releasing => order_age < RELEASE
    /\ bound_in # 0

\* No setpoint leaves the board once any of the four leases is over: every control step
\* that sends one finds all of them alive.
SetpointsAreLeased ==
    [][motion_enabled /\ update_age # 0 /\ update_age' = 0 => Leased]_vars

\* The drive is a dead man's switch here too: the order is a drive or a release line.
DeadmanSwitch == INSTANCE Deadman WITH
    LIMIT <- RELEASE + MAX_LOOP, driving <- Moving, age <- order_age

ImplementsDeadman == DeadmanSwitch!Spec

-----------------------------------------------------------------------------
(* What makes them inductive. *)

\* Only a session moves the robot, and a fault ends every motion.
OrdersAreOfASession ==
    /\ Moving => session
    /\ fault => ~Moving

\* An order on its way to the motors is still the one under way.
OrderUnderWay ==
    pc = "apply" => /\ action \in {"drive", "drive_zero"} => driving
                    /\ action = "release" => releasing

\* Between a fault and the next calibration the fault is latched, the gyro is not
\* calibrated, or the line that is to restart it has been judged and not yet applied.
FaultClock == unproven => fault \/ ~gyro.calibrated \/ (pc = "apply" /\ action = "gyro")

\* Every lease was looked at in the last control step.  A session alone may have been
\* missed there, if the trial deadline was over too; the next look comes before any line.
LeaseClock ==
    /\ session => \/ heartbeat_age < HEARTBEAT + loop_age
                  \/ /\ pc \in {"check", "retry", "sample", "usb"}
                     /\ bound_in = NoBound /\ ~motion_enabled /\ ~Moving
    /\ driving => order_age < OPERATOR + loop_age
    /\ releasing => order_age < RELEASE + loop_age

BootIsStopped ==
    /\ pc \notin Looping => ~motion_enabled /\ ~session
    /\ pc = "wheels_begin" => \A i \in Wheel : ~feedback[i].valid

IInv ==
    /\ WheelsInv
    /\ TypeOK
    /\ MotionIsLeased
    /\ OrdersAreOfASession
    /\ OrderUnderWay
    /\ FaultClock
    /\ LeaseClock
    /\ BootIsStopped
=============================================================================
