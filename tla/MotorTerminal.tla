---------------------------- MODULE MotorTerminal ----------------------------
(***************************************************************************)
(* motor_terminal.c: bounded motor experiments typed over a USB serial     *)
(* line.                                                                   *)
(*                                                                         *)
(* Speeds are told apart as at rest or not (the 0.01 RPM of at_rest):      *)
(* target and commanded are the wheels that have one, accelerating says a  *)
(* body profile has not settled.  The motors are read by nobody but        *)
(* through the replies to their frames.                                    *)
(***************************************************************************)
EXTENDS Integers

CONSTANTS
    WHEEL_COUNT,
    LEFT,             \* the wheels of the left side
    TICK_PERIOD,      \* 20 ms
    PROFILE_MAX_DT,   \* longest gap motion_profile_step accepts
    DURATIONS,        \* how long a run may be asked to last
    MAX_LOOP          \* assumed: longest time between two calls of update

Wheel == 0 .. WHEEL_COUNT - 1

ASSUME TerminalAssumption ==
    /\ WHEEL_COUNT \in Nat \ {0}
    /\ LEFT \subseteq Wheel
    /\ TICK_PERIOD \in Nat \ {0} /\ PROFILE_MAX_DT \in Nat
    /\ DURATIONS \subseteq Nat \ {0}
    /\ MAX_LOOP \in Nat \ {0}

VARIABLES
    motor,          \* what each motor really does
    unsure,         \* observer: wheels whose last frame was lost
    online, target, commanded, accelerating,
    mode, selected, moving, faulted,
    run_in,         \* until_us - now, while a run is on
    tick_in,        \* next_tick_us - now
    tick_age,       \* now - last_tick_us
    connected,
    pc,             \* the next part of main()
    loop_age        \* time since update was last called (observer, bounds Tick)

drive == <<motor, unsure, online, target, commanded, accelerating>>
settings == <<mode, selected>>
timers == <<run_in, tick_in, tick_age>>
vars == <<drive, settings, moving, faulted, timers, connected, pc, loop_age>>

All == -1
Modes == {"hw", "linear", "shape"}

\* What becomes of a frame: it is lost; it arrives, but the reply is missing or reports
\* an error; it is answered.
Outcome == {"lost", "failed", "answered"}
Outcomes == [Wheel -> Outcome]

TypeOK ==
    /\ motor \in [Wheel -> {"brake", "still", "moving"}]
    /\ unsure \subseteq Wheel
    /\ online \subseteq Wheel /\ target \subseteq Wheel /\ commanded \subseteq online
    /\ accelerating \in BOOLEAN /\ mode \in Modes /\ selected \in Wheel \cup {All}
    /\ moving \in BOOLEAN /\ faulted \in BOOLEAN /\ connected \in BOOLEAN
    /\ run_in \in Int
    /\ tick_in \in 0 .. TICK_PERIOD /\ tick_age \in 0 .. PROFILE_MAX_DT + 1
    /\ pc \in {"boot", "usb", "input", "update"}
    /\ loop_age \in 0 .. MAX_LOOP

\* The static state of the program.
Idle ==
    /\ online = {} /\ target = {} /\ commanded = {} /\ accelerating = FALSE
    /\ mode = "shape" /\ selected = All /\ moving = FALSE /\ faulted = FALSE
    /\ run_in = 0 /\ tick_in = 0 /\ tick_age = 0
    /\ connected = FALSE /\ pc = "boot" /\ loop_age = 0

Init == motor \in [Wheel -> {"brake", "still", "moving"}] /\ unsure = Wheel /\ Idle

-----------------------------------------------------------------------------
(* Motors *)

at_rest == ~moving /\ commanded = {} /\ ~accelerating

\* The motors and the doubtful ones after a brake frame to every wheel online.
Braked(m, out) ==
    [i \in Wheel |-> IF i \in online /\ out[i] # "lost" THEN "brake" ELSE m[i]]
Doubt(old, S, out) == (old \ S) \cup {i \in S : out[i] = "lost"}

\* Mutant: the run is over, its speeds are not.
Ramp_KeepsTarget ==
    /\ moving' = FALSE /\ run_in' = 0
    /\ UNCHANGED drive

\* stop(false)
Ramp ==
    /\ moving' = FALSE /\ run_in' = 0
    /\ target' = {}
    /\ UNCHANGED <<motor, unsure, online, commanded, accelerating>>

\* stop(true), for motors m and the doubt about them there is already.
BrakeFrom(m, doubt, out) ==
    /\ moving' = FALSE /\ run_in' = 0
    /\ target' = {} /\ commanded' = {} /\ accelerating' = FALSE
    /\ motor' = Braked(m, out)
    /\ unsure' = Doubt(doubt, online, out)
    /\ UNCHANGED online

Brake == \E out \in Outcomes : BrakeFrom(motor, unsure, out)

-----------------------------------------------------------------------------
(* main(), before its loop and at the top of it *)

\* Each wheel that reports a mode is online, put in velocity mode, which may wake an
\* old speed (`woken`), and braked.
Boot ==
    /\ pc = "boot"
    /\ pc' = "usb"
    /\ loop_age' = 0
    /\ \E found \in SUBSET Wheel :
       \E woken \in [found -> {"still", "moving"}], out \in Outcomes :
           /\ online' = found
           /\ motor' = [i \in Wheel |->
                  IF i \notin found THEN motor[i]
                  ELSE IF out[i] = "lost" THEN woken[i] ELSE "brake"]
           /\ unsure' = Doubt(unsure, found, out)
    /\ UNCHANGED <<target, commanded, accelerating, settings, moving, faulted, timers, connected>>

Usb(mounted) ==
    /\ pc = "usb"
    /\ pc' = "input"
    /\ connected' = mounted
    /\ IF connected /\ ~mounted THEN Brake ELSE UNCHANGED <<drive, moving, run_in>>
    /\ UNCHANGED <<settings, faulted, tick_in, tick_age, loop_age>>

InputDone ==
    /\ pc = "input"
    /\ pc' = "update"
    /\ UNCHANGED <<drive, settings, moving, faulted, timers, connected, loop_age>>

-----------------------------------------------------------------------------
(* command().  What only prints, or sets a ramp, is left out. *)

\* Lines come over the mounted port only: the USB stack drops those it holds when the
\* port goes (external), and main its half of a line.
Typed == pc = "input" /\ connected /\ UNCHANGED <<pc, connected, loop_age>>

StopCommand ==
    /\ Typed
    /\ Ramp
    /\ UNCHANGED <<settings, faulted, tick_in, tick_age>>

\* `brake`, and the characters that brake at once.
BrakeCommand ==
    /\ Typed
    /\ Brake
    /\ UNCHANGED <<settings, faulted, tick_in, tick_age>>

\* The fault is cleared if every motor reports velocity mode.
Clear ==
    /\ Typed
    /\ Brake
    /\ \/ /\ online = Wheel
          /\ faulted' = FALSE
          /\ tick_age' = 0 /\ tick_in' = TICK_PERIOD
       \/ UNCHANGED <<faulted, tick_in, tick_age>>
    /\ UNCHANGED settings

\* `mode`, and `sw`, which chooses between the two other modes.
SetMode(m) ==
    /\ Typed
    /\ at_rest
    /\ m = "shape" => selected = All
    /\ mode' = m
    /\ accelerating' = FALSE
    /\ UNCHANGED <<motor, unsure, online, target, commanded, selected, moving, faulted, timers>>

\* Mutant: the selection can change while the wheels ramp down.
Select_Ramping(w) ==
    /\ Typed
    /\ ~moving
    /\ w \in Wheel \cup {All}
    /\ selected' = w
    /\ mode' = IF w # All /\ mode = "shape" THEN "hw" ELSE mode
    /\ UNCHANGED <<drive, moving, faulted, timers>>

Select(w) ==
    /\ Typed
    /\ at_rest
    /\ w \in Wheel \cup {All}
    /\ selected' = w
    /\ mode' = IF w # All /\ mode = "shape" THEN "hw" ELSE mode
    /\ UNCHANGED <<drive, moving, faulted, timers>>

Chosen == IF selected = All THEN online ELSE online \cap {selected}

\* Mutant: shaping is taken on with some wheels missing.
Run_AnyOnline(left, right, duration) ==
    /\ Typed
    /\ ~faulted
    /\ Chosen # {}
    /\ target' = {i \in Chosen : IF i \in LEFT THEN left ELSE right}
    /\ moving' = TRUE
    /\ run_in' = duration
    /\ tick_age' = IF at_rest THEN 0 ELSE tick_age
    /\ UNCHANGED <<motor, unsure, online, commanded, accelerating, settings, faulted, tick_in>>

\* `left`, `right`: that side is to turn.
Run(left, right, duration) ==
    /\ Typed
    /\ ~faulted
    /\ mode = "shape" => online = Wheel
    /\ Chosen # {}
    /\ target' = {i \in Chosen : IF i \in LEFT THEN left ELSE right}
    /\ moving' = TRUE
    /\ run_in' = duration
    /\ tick_age' = IF at_rest THEN 0 ELSE tick_age
    /\ UNCHANGED <<motor, unsure, online, commanded, accelerating, settings, faulted, tick_in>>

-----------------------------------------------------------------------------
(* update(): first the end of the run, then, every TICK_PERIOD, the speeds. *)

RunOver == moving /\ run_in <= 0
TargetNow == IF RunOver THEN {} ELSE target
AtRestNow == (~moving \/ RunOver) /\ commanded = {} /\ ~accelerating

\* Something that a profile or a ramp still has to bring to its target.
Unsettled == TargetNow # {} \/ commanded # {} \/ accelerating

\* The wheels that have a speed after this tick.
NewSpeeds ==
    CASE mode = "hw" -> {TargetNow}
      [] mode = "linear" -> SUBSET (TargetNow \cup commanded)
      [] mode = "shape" -> IF Unsettled THEN {{}, online, online \cap LEFT, online \ LEFT} ELSE {{}}

Silent(sent) == {i \in online : sent[i] # "answered"}

\* The motors after their frames, up to and including the first that fails.
Told(speeds, sent) ==
    LET reached == {i \in online : \A j \in Silent(sent) : i <= j}
    IN  [m |-> [i \in Wheel |->
                   IF i \in reached /\ sent[i] # "lost"
                   THEN (IF i \in speeds THEN "moving" ELSE "still") ELSE motor[i]],
         doubt |-> Doubt(unsure, reached, sent)]

UpdateRuns == connected /\ ~faulted

UpdateNothing ==
    /\ \/ ~UpdateRuns
       \/ tick_in > 0 /\ ~RunOver
    /\ UNCHANGED <<drive, moving, faulted, timers>>

UpdateEndsRun ==
    /\ UpdateRuns /\ tick_in > 0 /\ RunOver
    /\ Ramp
    /\ UNCHANGED <<faulted, tick_in, tick_age>>

TickDue ==
    /\ UpdateRuns /\ tick_in = 0
    /\ tick_age' = 0 /\ tick_in' = TICK_PERIOD

GapTooLong == mode = "shape" /\ ~AtRestNow /\ tick_age > PROFILE_MAX_DT

\* The profile refuses the gap, or its speeds pass 210 RPM.
ProfileFails ==
    /\ TickDue
    /\ GapTooLong \/ (mode = "shape" /\ Unsettled)
    /\ faulted' = TRUE
    /\ Brake

SendSpeeds ==
    /\ TickDue
    /\ ~GapTooLong
    /\ \E speeds \in NewSpeeds :
           /\ commanded' = speeds \cap online
           /\ motor' = Told(speeds, [i \in Wheel |-> "answered"]).m
           /\ unsure' = Told(speeds, [i \in Wheel |-> "answered"]).doubt
    /\ accelerating' \in IF mode = "shape" /\ Unsettled THEN BOOLEAN ELSE {accelerating}
    /\ target' = TargetNow
    /\ moving' = (moving /\ ~RunOver)
    /\ run_in' = IF RunOver THEN 0 ELSE run_in
    /\ UNCHANGED <<online, faulted>>

\* Mutant: only the wheels that did not answer are braked.
SendFails_BrakesSilent ==
    /\ TickDue
    /\ ~GapTooLong
    /\ \E speeds \in NewSpeeds, sent, out \in Outcomes :
           /\ Silent(sent) # {}
           /\ motor' = [i \in Wheel |->
                  IF i \in Silent(sent) THEN Braked(motor, out)[i] ELSE Told(speeds, sent).m[i]]
           /\ unsure' = Doubt(Told(speeds, sent).doubt, Silent(sent), out)
    /\ target' = {} /\ commanded' = {} /\ accelerating' = FALSE
    /\ moving' = FALSE /\ run_in' = 0
    /\ faulted' = TRUE
    /\ UNCHANGED online

SendFails ==
    /\ TickDue
    /\ ~GapTooLong
    /\ \E speeds \in NewSpeeds, sent, out \in Outcomes :
           /\ Silent(sent) # {}
           /\ BrakeFrom(Told(speeds, sent).m, Told(speeds, sent).doubt, out)
    /\ faulted' = TRUE

Update ==
    /\ pc = "update"
    /\ pc' = "usb"
    /\ loop_age' = 0
    /\ UpdateNothing \/ UpdateEndsRun \/ ProfileFails \/ SendSpeeds \/ SendFails
    /\ UNCHANGED <<settings, connected>>

-----------------------------------------------------------------------------
(* The world *)

PowerCycle ==
    /\ online' = {} /\ target' = {} /\ commanded' = {} /\ accelerating' = FALSE
    /\ mode' = "shape" /\ selected' = All /\ moving' = FALSE /\ faulted' = FALSE
    /\ run_in' = 0 /\ tick_in' = 0 /\ tick_age' = 0
    /\ connected' = FALSE /\ pc' = "boot" /\ loop_age' = 0
    /\ unsure' = Wheel
    /\ UNCHANGED motor

Tick ==
    /\ pc = "boot" \/ loop_age < MAX_LOOP
    /\ loop_age' = IF pc = "boot" THEN loop_age ELSE loop_age + 1
    /\ run_in' = IF moving THEN run_in - 1 ELSE run_in
    /\ tick_in' = IF tick_in > 0 THEN tick_in - 1 ELSE 0
    /\ tick_age' = IF tick_age > PROFILE_MAX_DT THEN tick_age ELSE tick_age + 1
    /\ UNCHANGED <<drive, settings, moving, faulted, connected, pc>>

Next ==
    \/ Boot
    \/ \E mounted \in BOOLEAN : Usb(mounted)
    \/ StopCommand \/ BrakeCommand \/ Clear
    \/ \E m \in Modes : SetMode(m)
    \/ \E w \in All .. WHEEL_COUNT : Select(w)
    \/ \E left, right \in BOOLEAN, duration \in DURATIONS : Run(left, right, duration)
    \/ InputDone
    \/ Update
    \/ PowerCycle
    \/ Tick

Spec == Init /\ [][Next]_vars

-----------------------------------------------------------------------------
(* What the terminal promises. *)

\* A run is over at its deadline or at the next call of update, whatever was typed, and
\* with it every speed asked for: nothing is a target without a run.
RunsEnd ==
    /\ moving => run_in > -MAX_LOOP
    /\ target # {} => moving /\ connected /\ ~faulted

\* A wheel that turns was told to, unless the frame that should have stopped it was lost:
\* in the middle of a fault, of a ramp or after the cable was pulled.
TurnsAsTold == \A i \in online \ unsure : motor[i] = "moving" => i \in commanded

\* A wheel that is not selected has no speed, though the selection changes at will
\* between runs; and the body profile drives all wheels of the robot or none.
OnlySelectedTurn ==
    /\ selected # All => target \cup commanded \subseteq {selected}
    /\ mode = "shape" /\ ~at_rest => online = Wheel

\* Pulling the cable leaves nothing that could turn a wheel later.
UnpluggedIsAtRest == ~connected => at_rest /\ target = {}

\* While a fault is latched no wheel leaves its brake.
FaultKeepsBrake ==
    [][faulted /\ faulted' => \A i \in Wheel : motor[i] = "brake" => motor'[i] = "brake"]_vars

\* At rest nothing starts a wheel but boot: it takes a run first.
RestIsKept ==
    [][at_rest /\ pc # "boot" =>
           \A i \in Wheel : motor'[i] = "moving" => motor[i] = "moving"]_vars

-----------------------------------------------------------------------------
(* What makes them inductive. *)

\* The board boots in its static state.
BootIsIdle ==
    pc = "boot" => /\ online = {} /\ target = {} /\ commanded = {} /\ ~accelerating
                   /\ ~moving /\ ~faulted /\ ~connected /\ mode = "shape" /\ selected = All

\* The last call of update left a run it did not end at least a tick.
RunClock == moving => run_in + loop_age >= 1 /\ connected /\ ~faulted

\* A body profile is for all wheels: one that is selected leaves the mode.
ShapeIsForAll == mode = "shape" => selected = All

IInv ==
    /\ TypeOK /\ BootIsIdle /\ RunClock /\ ShapeIsForAll
    /\ RunsEnd /\ TurnsAsTold /\ OnlySelectedTurn /\ UnpluggedIsAtRest

=============================================================================
