-------------------------- MODULE CalibrationTrial --------------------------
(***************************************************************************)
(* CalibrationFirmware with an observer of a trial's deadline as the       *)
(* calibration README has it: a `bound` line starts it, and drive and      *)
(* heartbeat lines do not move it.  For the observer the trial ends when   *)
(* the deadline does its work (calibration_expire finds it over), when a   *)
(* line is refused, which the server takes for a failure of the trial, and *)
(* with any other line, a fault, the cable and a reset.  What is left in a *)
(* trial are lines that go well, and the other three leases.  The observer *)
(* follows every step and hinders none.                                    *)
(***************************************************************************)
EXTENDS CalibrationFirmware

VARIABLE trial_in   \* ticks to the deadline, counted on past zero, or NoTrial

NoTrial == -(MAX_LOOP + 2)

TrialInit == Init /\ trial_in = NoTrial

\* The lines that leave a trial alone, if they are not refused.
TrialLines == {"heartbeat", "drive", "drive_zero", "status"}

Granted == pc' = "apply"

\* The one step that ends a trial as it should: the deadline is found over.
DeadlineFound == bound_in = 0 /\ bound_in' # 0

BeginTrial == Line("bound") /\ Granted /\ trial_in' = bound_in'

WithinTrial ==
    /\ \/ \E line \in TrialLines : Line(line) /\ Granted
       \/ Apply \/ Reply \/ InputDone
       \/ RetryOffline \/ NoSample \/ \E sample \in Samples : Sample(sample)
       \/ Usb(TRUE)
       \/ Control
       \/ CheckNothing
    /\ trial_in' = IF DeadlineFound THEN NoTrial ELSE trial_in

EndTrial ==
    /\ \/ \E line \in Lines \ (TrialLines \cup {"bound"}) : Line(line)
       \/ \E line \in TrialLines \cup {"bound"} : Line(line) /\ ~Granted
       \/ Usb(FALSE) \/ BadLine \/ ApplyFails \/ CheckFault \/ CheckReleased
       \/ WheelsBegin \/ SetupBrake \/ PowerCycle
    /\ trial_in' = NoTrial

TrialTick ==
    /\ Tick
    /\ trial_in' = IF trial_in > -(MAX_LOOP + 1) THEN trial_in - 1 ELSE trial_in

TrialNext == TrialTick \/ BeginTrial \/ WithinTrial \/ EndTrial

TrialSpec == TrialInit /\ [][TrialNext]_<<vars, trial_in>>

\* tools/calibration/README.md:149: the MCU "`bound` deadline, maximum 30 seconds, that
\* repeated drive/heartbeat packets cannot extend".  Within a trial no motion goes on for
\* longer than a round of the loop past the deadline; a drive line after an operator
\* timeout makes it, because calibration_stop then clears the deadline with the order.
DeadlineStands == trial_in = -(MAX_LOOP + 1) => ~motion_enabled
=============================================================================
