------------------------- MODULE CalibrationProtocol -------------------------
(***************************************************************************)
(* calibration_protocol.c: the state a calibration session keeps, and what *)
(* each line of the server does to it.  CalibrationFirmware.tla puts it on *)
(* the motors.                                                             *)
(*                                                                         *)
(* Four leases limit motion.  The session lives while heartbeats come; a   *)
(* drive order lives OPERATOR; a release must be over after RELEASE; and a *)
(* trial has a deadline of its own.  operator_us is read only while        *)
(* driving and release_until_us only while releasing, and each is set by   *)
(* the line that begins that: order_age, the age of the last drive or      *)
(* release taken, stands for both.                                         *)
(***************************************************************************)
EXTENDS Integers

CONSTANTS
    HEARTBEAT,   \* CALIBRATION_HEARTBEAT_US
    OPERATOR,    \* CALIBRATION_OPERATOR_US
    RELEASE,     \* CALIBRATION_RELEASE_US
    BOUNDS,      \* the trial durations a `bound` line can ask for
    SLACK        \* how far past their limits the ages are followed

ASSUME ProtocolAssumption ==
    /\ HEARTBEAT \in Nat \ {0}
    /\ OPERATOR \in Nat \ {0}
    /\ RELEASE \in Nat \ {0}
    /\ OPERATOR <= RELEASE
    /\ BOUNDS \subseteq Nat \ {0}
    /\ SLACK \in Nat

VARIABLES
    session, fault, driving, releasing,
    heartbeat_age,   \* now - heartbeat_us
    order_age,       \* age of the drive or release under way
    bound_in,        \* bound_until_us - now, zero once it is past, or NoBound
    action           \* what the last line asks of the motors

protocolVars == <<session, fault, driving, releasing, heartbeat_age, order_age, bound_in, action>>

NoBound == -1
Actions == {"none", "drive", "drive_zero", "release", "set", "set_lpf", "gyro"}

\* The lines the parser tells apart.  "invalid": anything it refuses whatever the state;
\* "set": a configuration, "set_lpf": one that changes the gyro filter.
Lines == {"invalid", "stop", "hello", "status", "heartbeat", "calibrate", "drive", "drive_zero",
          "drive_bad", "release", "set", "set_lpf", "measure", "bound"}

ProtocolTypeOK ==
    /\ session \in BOOLEAN /\ fault \in BOOLEAN
    /\ driving \in BOOLEAN /\ releasing \in BOOLEAN
    /\ heartbeat_age \in 0 .. HEARTBEAT + SLACK
    /\ order_age \in 0 .. RELEASE + SLACK
    /\ bound_in \in Nat \cup {NoBound}
    /\ action \in Actions

\* calibration_init
ProtocolInit ==
    /\ session = FALSE /\ fault = FALSE /\ driving = FALSE /\ releasing = FALSE
    /\ heartbeat_age = 0 /\ order_age = 0 /\ bound_in = NoBound /\ action = "none"

\* Everything in RAM is lost.
ProtocolReset ==
    /\ session' = FALSE /\ fault' = FALSE /\ driving' = FALSE /\ releasing' = FALSE
    /\ heartbeat_age' = 0 /\ order_age' = 0 /\ bound_in' = NoBound /\ action' = "none"

Moving == driving \/ releasing

-----------------------------------------------------------------------------
(* Expiry *)

\* Mutant: the drive lease is renewed by the heartbeat.
Expiry_HeartbeatOnly ==
    IF bound_in = 0 THEN "bound"
    ELSE IF session /\ heartbeat_age >= HEARTBEAT THEN "heartbeat"
    ELSE IF releasing /\ order_age >= RELEASE THEN "release"
    ELSE "none"

\* Mutant: the trial deadline is not looked at.
Expiry_NoBound ==
    IF session /\ heartbeat_age >= HEARTBEAT THEN "heartbeat"
    ELSE IF driving /\ order_age >= OPERATOR THEN "operator"
    ELSE IF releasing /\ order_age >= RELEASE THEN "release"
    ELSE "none"

\* The lease calibration_expire finds expired: the first of the four, one per call.
Expiry ==
    IF bound_in = 0 THEN "bound"
    ELSE IF session /\ heartbeat_age >= HEARTBEAT THEN "heartbeat"
    ELSE IF driving /\ order_age >= OPERATOR THEN "operator"
    ELSE IF releasing /\ order_age >= RELEASE THEN "release"
    ELSE "none"

\* The state after that call, which is the state a line finds.
SessionNow == session /\ Expiry # "heartbeat"
DrivingNow == driving /\ Expiry = "none"
ReleasingNow == releasing /\ Expiry = "none"
BoundNow == IF Expiry = "none" THEN bound_in ELSE NoBound

calibration_expire ==
    /\ session' = SessionNow
    /\ driving' = DrivingNow
    /\ releasing' = ReleasingNow
    /\ bound_in' = BoundNow
    /\ UNCHANGED <<fault, heartbeat_age, order_age, action>>

calibration_stop == driving' = FALSE /\ releasing' = FALSE /\ bound_in' = NoBound

\* Mutant: a fault stops the robot and is forgotten.
calibration_fault_Unlatched ==
    /\ calibration_stop
    /\ UNCHANGED <<session, fault, heartbeat_age, order_age, action>>

calibration_fault ==
    /\ calibration_stop
    /\ fault' = TRUE
    /\ UNCHANGED <<session, heartbeat_age, order_age, action>>

calibration_disconnect ==
    /\ calibration_stop
    /\ session' = FALSE
    /\ UNCHANGED <<fault, heartbeat_age, order_age, action>>

-----------------------------------------------------------------------------
(* Lines.  `ready` and `at_rest` are the flags the firmware sets before each  *)
(* line; `brake` is what calibration_command returns and `ok` what it replies.    *)
(* Every line first runs calibration_expire, and brakes if a lease had expired.   *)

\* The line changes no more than the expiry does: it asks nothing, or is refused.
NothingMore(brake) ==
    /\ session' = SessionNow /\ driving' = DrivingNow /\ releasing' = ReleasingNow
    /\ bound_in' = BoundNow
    /\ action' = "none"
    /\ brake = (Expiry # "none")
    /\ UNCHANGED <<fault, heartbeat_age, order_age>>

\* The lines that need a session.
SessionLines == Lines \ {"invalid", "stop", "hello", "status"}

NotAtRest(at_rest) == ~at_rest \/ DrivingNow \/ ReleasingNow

Refused(line, at_rest) ==
    \/ line = "invalid"
    \/ line \in SessionLines /\ ~SessionNow
    \/ line \in {"set", "set_lpf", "measure", "bound"} /\ NotAtRest(at_rest)

Status(line, brake) ==
    /\ line = "status" \/ line = "measure"
    /\ NothingMore(brake)

Stop(line, brake) ==
    /\ line = "stop"
    /\ calibration_stop
    /\ session' = SessionNow /\ action' = "none" /\ brake = TRUE
    /\ UNCHANGED <<fault, heartbeat_age, order_age>>

Hello(line, brake) ==
    /\ line = "hello"
    /\ calibration_stop
    /\ session' = TRUE /\ heartbeat_age' = 0 /\ action' = "none" /\ brake = TRUE
    /\ UNCHANGED <<fault, order_age>>

Heartbeat(line, brake) ==
    /\ line = "heartbeat"
    /\ session' = SessionNow /\ driving' = DrivingNow /\ releasing' = ReleasingNow
    /\ bound_in' = BoundNow
    /\ heartbeat_age' = 0 /\ action' = "none"
    /\ brake = (Expiry # "none")
    /\ UNCHANGED <<fault, order_age>>

\* The one line that clears a fault.
Calibrate(line, brake) ==
    /\ line = "calibrate"
    /\ calibration_stop
    /\ session' = SessionNow /\ fault' = FALSE /\ action' = "gyro" /\ brake = TRUE
    /\ UNCHANGED <<heartbeat_age, order_age>>

\* Mutant: a drive while driving does not renew the time of the first one.
Drive_Untimed(line, ready, brake) ==
    /\ line \in {"drive", "drive_zero"}
    /\ ready /\ ~fault
    /\ session' = SessionNow /\ bound_in' = BoundNow
    /\ driving' = TRUE /\ releasing' = FALSE
    /\ action' = line
    /\ brake = (Expiry # "none")
    /\ UNCHANGED <<fault, heartbeat_age, order_age>>

Drive(line, ready, brake) ==
    /\ line \in {"drive", "drive_zero"}
    /\ ready /\ ~fault
    /\ session' = SessionNow /\ bound_in' = BoundNow
    /\ driving' = TRUE /\ releasing' = FALSE
    /\ order_age' = 0 /\ action' = line
    /\ brake = (Expiry # "none")
    /\ UNCHANGED <<fault, heartbeat_age>>

\* A drive that is out of range, or not allowed, stops the robot.
DriveRefused(line, ready, brake) ==
    /\ \/ line = "drive_bad"
       \/ line \in {"drive", "drive_zero"} /\ (~ready \/ fault)
    /\ calibration_stop
    /\ session' = SessionNow /\ action' = "none" /\ brake = TRUE
    /\ UNCHANGED <<fault, heartbeat_age, order_age>>

\* A repeated release starts its time anew.
Release(line, brake) ==
    /\ line = "release"
    /\ DrivingNow \/ ReleasingNow
    /\ session' = SessionNow /\ bound_in' = BoundNow
    /\ driving' = FALSE /\ releasing' = TRUE
    /\ order_age' = 0 /\ action' = "release"
    /\ brake = (Expiry # "none")
    /\ UNCHANGED <<fault, heartbeat_age>>

ReleaseAtRest(line, brake) ==
    /\ line = "release"
    /\ ~DrivingNow /\ ~ReleasingNow
    /\ calibration_stop
    /\ session' = SessionNow /\ action' = "none" /\ brake = TRUE
    /\ UNCHANGED <<fault, heartbeat_age, order_age>>

Set(line, brake) ==
    /\ line \in {"set", "set_lpf"}
    /\ session' = SessionNow /\ driving' = DrivingNow /\ releasing' = ReleasingNow
    /\ bound_in' = BoundNow
    /\ action' = line
    /\ brake = (Expiry # "none")
    /\ UNCHANGED <<fault, heartbeat_age, order_age>>

Bound(line, brake) ==
    /\ line = "bound"
    /\ session' = SessionNow /\ driving' = DrivingNow /\ releasing' = ReleasingNow
    /\ bound_in' \in BOUNDS
    /\ action' = "none"
    /\ brake = (Expiry # "none")
    /\ UNCHANGED <<fault, heartbeat_age, order_age>>

calibration_command(line, ready, at_rest, brake, ok) ==
    \/ Refused(line, at_rest) /\ NothingMore(brake) /\ ~ok
    \/ ~Refused(line, at_rest) /\ DriveRefused(line, ready, brake) /\ ~ok
    \/ /\ ~Refused(line, at_rest)
       /\ ok
       /\ \/ Status(line, brake) \/ Stop(line, brake) \/ Hello(line, brake)
          \/ Heartbeat(line, brake) \/ Calibrate(line, brake)
          \/ Drive(line, ready, brake)
          \/ Release(line, brake) \/ ReleaseAtRest(line, brake)
          \/ Set(line, brake) \/ Bound(line, brake)

\* One tick of the clock.
ProtocolOlder ==
    /\ heartbeat_age' = IF heartbeat_age < HEARTBEAT + SLACK THEN heartbeat_age + 1 ELSE heartbeat_age
    /\ order_age' = IF order_age < RELEASE + SLACK THEN order_age + 1 ELSE order_age
    /\ bound_in' = IF bound_in > 0 THEN bound_in - 1 ELSE bound_in
    /\ UNCHANGED <<session, fault, driving, releasing, action>>
=============================================================================
